---- MODULE Spec2Model ----
(***************************************************************************)
(* Fleet telemetry simulation backend (src/backend/main.py).               *)
(*                                                                         *)
(* The store tables are modelled as sets (bags, for TELEMETRY) of rows and *)
(* every SQL statement as one atomic operator on them.  A request handler  *)
(* is a sequence of statements; a worker executes a handler one statement  *)
(* at a time.  `serial` fixes the scheduling of a behaviour: TRUE when     *)
(* requests are handled strictly one after the other, FALSE when handlers  *)
(* and background threads interleave at statement boundaries.              *)
(***************************************************************************)
EXTENDS Integers, Sequences, FiniteSets, Bags, TLC

VARIABLES
    STREAM_STATE,         \* table: at most one row [start_ts, step_seconds, next_epoch]
    FAILURE_CONFIG,       \* table: rows keyed by entity_id
    TELEMETRY,            \* table: bag of rows [Timestamp, entity_id, src, off]
    PREDICTION_CACHE,     \* table: rows [entity_id, ptype, ptime], keyed by entity_id
    FIRST_FAILURE_MARKERS, \* table: rows [entity_id, failure_type, first_failure_time]
    caches,               \* the read caches (main.py 41-45): [has, data, timestamp] each
    now,                  \* wall clock (seconds), as last observed
    serial,               \* scheduling of this behaviour (see above)
    pc,                   \* per worker: next statement of the handler it runs
    loc,                  \* per worker: the handler's local variables
    ret,                  \* per worker: the response it is about to send
    calls,                \* requests taken up so far under concurrent scheduling
    refresh_in_progress,  \* global, main.py line 36
    last_refresh_time,    \* global, main.py line 37
    refresh_lock,         \* global, main.py line 35: holder, or "free"
    rpc,                  \* per refresh thread: position in its trigger
    rloc,                 \* per refresh thread: kind and current_time
    rret,                 \* per refresh thread: outcome of its last trigger
    exec_log              \* history: wall-clock start times of the recomputations

storeVars   == <<STREAM_STATE, FAILURE_CONFIG, TELEMETRY>>
workerVars  == <<pc, loc, ret, calls>>
refreshVars == <<refresh_in_progress, last_refresh_time, refresh_lock>>
threadVars  == <<rpc, rloc, rret, exec_log>>
derived     == <<PREDICTION_CACHE, FIRST_FAILURE_MARKERS>>
vars == <<STREAM_STATE, FAILURE_CONFIG, TELEMETRY, PREDICTION_CACHE,
          FIRST_FAILURE_MARKERS, caches, now, serial, pc, loc, ret, calls,
          refresh_in_progress, last_refresh_time, refresh_lock, rpc, rloc, rret,
          exec_log>>

---------------------------------------------------------------------------
(* Bounds of the model *)

MaxEpoch == 3          \* a writer starts only while next_epoch < MaxEpoch
MaxHours == 2          \* largest fast-forward request
NormalSeedLen == 4     \* NORMAL_SEED holds epochs 1..NormalSeedLen per entity
MaxTicks == 2          \* the wall clock takes the values StartNow + k*TimeStep
MaxResetTicks == 1     \* ... and a reset happens at one of the first of them
TimeStep == 10
MaxExecs == 3          \* recomputations recorded in exec_log
MaxSerialCalls == 5      \* requests handled in a behaviour with serial scheduling
MaxCalls == 3          \* requests taken up in a behaviour with concurrent scheduling
MaxMarkerResets == 1   \* resets beside the refresh coordinator (SpecMarkers)
MaxFairExecs == 2      \* recomputations before the last trigger (SpecRefreshFair)
MaxRegistryCalls == 3  \* requests beside the refresh threads (SpecRegistry)

Entities == {"T1", "T2"}
Workers  == {"w1", "w2"}
EventLoop == "w1"      \* the worker that handles every request under serial scheduling
Threads  == {"r1", "r2"}

(* Program constants *)
COOLDOWN == 15             \* main.py 658, 776
RESET_STEP_SECONDS == 5    \* main.py 1236
DEFAULT_STEP_SECONDS == 5  \* main.py 812, 914: int(step_seconds) or 5
SECONDS_PER_HOUR == 3600   \* main.py 916
STALE_MINUTES == 60
SECONDS_PER_MINUTE == 60
CACHE_TTL == 3             \* main.py 46
MARKER_SLICE_SECONDS == 300  \* main.py 735: TIME_SLICE(..., 5, 'MINUTE', 'START')

(* Store data the program finds: the clock row the stream was set up with  *)
(* (one epoch per simulated hour keeps fast-forwards within the bounds),   *)
(* and the lengths of the three failure seed series.                       *)
InitStepChoices == {3600}
SeedLen == [ENGINE |-> 2, TRANSMISSION |-> 1, ELECTRICAL |-> 3]
SeedTypes == {"ENGINE", "TRANSMISSION", "ELECTRICAL"}

(* Requests *)
Hours == (0 - 1)..MaxHours
FailureTypeInputs == {"engine", "TRANSMISSION", "BOGUS"}

StartNow == COOLDOWN + TimeStep
Times == {StartNow + k * TimeStep : k \in 0..MaxTicks}
ResetTimes == {StartNow + k * TimeStep : k \in 0..MaxResetTicks}

---------------------------------------------------------------------------
(* Helpers *)

Max(a, b) == IF a >= b THEN a ELSE b
Min(a, b) == IF a <= b THEN a ELSE b

\* str.upper() on the request's failure type (main.py 1043)
Upper(s) ==
    CASE s = "engine" -> "ENGINE"
      [] s = "transmission" -> "TRANSMISSION"
      [] s = "electrical" -> "ELECTRICAL"
      [] s = "bogus" -> "BOGUS"
      [] OTHER -> s

\* the seed tables
NORMAL_SEED == {[entity_id |-> e, epoch |-> k] : e \in Entities, k \in 1..NormalSeedLen}
FailureSeed(ft) == IF ft \in SeedTypes THEN 1..SeedLen[ft] ELSE {}

\* the single row of STREAM_STATE for the stream, when there is one
HasClock(ss) == ss # {}
ClockRow(ss) == CHOOSE r \in ss : TRUE
NextEpoch == IF HasClock(STREAM_STATE) THEN ClockRow(STREAM_STATE).next_epoch ELSE 0 - 1

\* fault-injected variant: the rows are stamped one epoch early
Ts_EpochBefore(st, epoch) == st.start_ts + (epoch - 1) * st.step_seconds

\* DATEADD(second, epoch * step_seconds, start_ts)
Ts(st, epoch) == st.start_ts + epoch * st.step_seconds

\* int(step_seconds) or 5
StepOr5(s) == IF s = 0 THEN DEFAULT_STEP_SECONDS ELSE s

Key(r) == <<r.Timestamp, r.entity_id>>
Rows(tel) == BagToSet(tel)
Keys(tel) == {Key(r) : r \in Rows(tel)}

\* fault-injected variant: the insert without the anti-join on the key
AntiJoinInsert_NoSkip(tel, cand) == tel (+) SetToBag(cand)

\* INSERT INTO TELEMETRY SELECT ... LEFT JOIN TELEMETRY existing ...
\* WHERE existing.entity_id IS NULL: only candidates whose key is not there
AntiJoinInsert(tel, cand) ==
    tel (+) SetToBag({r \in cand : Key(r) \notin Keys(tel)})

Store == [ss |-> STREAM_STATE, cfg |-> FAILURE_CONFIG, tel |-> TELEMETRY]

\* the read caches {"data": None, "timestamp": 0} (41-45); `by` is history:
\* the read path that stored the data
CacheNames == {"telemetry", "predictions", "failures", "markers"}
EmptyCache == [has |-> FALSE, data |-> {}, timestamp |-> 0, by |-> "none"]

\* cache["timestamp"] = 0 for the named caches (760-762, 895-896, 1059-1060)
Invalidate(cs, names) ==
    [c \in CacheNames |-> IF c \in names THEN [cs[c] EXCEPT !.timestamp = 0] ELSE cs[c]]

---------------------------------------------------------------------------
(* write_epoch: the statements of main.py 803-902 *)

\* CTE active_failures (824-830)
ActiveFailures(cfg, target_epoch) ==
    {fc \in cfg : fc.enabled /\ fc.effective_from_epoch <= target_epoch}

\* fault-injected variant: the normal rows without the anti-join on active_failures
NormalData_All(db, target_epoch) ==
    {[Timestamp |-> Ts(ClockRow(db.ss), target_epoch), entity_id |-> n.entity_id,
      src |-> "NORMAL", off |-> n.epoch] :
        n \in {m \in NORMAL_SEED : m.epoch = target_epoch}}

\* CTE normal_data (831-840): the normal seed row of target_epoch for every
\* entity that is not in active_failures
NormalData(db, target_epoch) ==
    LET si == ClockRow(db.ss)
        af == ActiveFailures(db.cfg, target_epoch)
    IN {[Timestamp |-> Ts(si, target_epoch), entity_id |-> n.entity_id,
         src |-> "NORMAL", off |-> n.epoch] :
          n \in {m \in NORMAL_SEED :
                   /\ m.epoch = target_epoch
                   /\ ~(\E a \in af : a.entity_id = m.entity_id)}}

\* CTE failure_data (841-857): the row of the entity's failure series at
\* failure_next_epoch + 1, when the series has one
FailureData(db, target_epoch) ==
    LET si == ClockRow(db.ss)
        af == ActiveFailures(db.cfg, target_epoch)
    IN {[Timestamp |-> Ts(si, target_epoch), entity_id |-> a.entity_id,
         src |-> a.failure_type, off |-> a.failure_next_epoch + 1] :
          a \in {b \in af : b.failure_next_epoch + 1 \in FailureSeed(b.failure_type)}}

\* STEP 2 (816-868): stream_info is empty when there is no clock row
WriteEpochInsert(db, target_epoch) ==
    IF ~HasClock(db.ss) THEN db.tel
    ELSE AntiJoinInsert(db.tel,
                        NormalData(db, target_epoch) \cup FailureData(db, target_epoch))

\* fault-injected variant: an entity whose series is exhausted is disabled
WriteEpochCursor_DisableExhausted(cfg, target_epoch) ==
    {IF fc.enabled /\ fc.effective_from_epoch <= target_epoch
     THEN IF fc.failure_next_epoch + 1 \in FailureSeed(fc.failure_type)
          THEN [fc EXCEPT !.failure_next_epoch = fc.failure_next_epoch + 1]
          ELSE [fc EXCEPT !.enabled = FALSE]
     ELSE fc : fc \in cfg}

\* STEP 3 (870-885)
WriteEpochCursor(cfg, target_epoch) ==
    {IF /\ fc.enabled
        /\ fc.effective_from_epoch <= target_epoch
        /\ fc.failure_next_epoch + 1 \in FailureSeed(fc.failure_type)
     THEN [fc EXCEPT !.failure_next_epoch = fc.failure_next_epoch + 1]
     ELSE fc : fc \in cfg}

\* fault-injected variant: the clock is left where it was
WriteEpochClock_Stuck(ss, target_epoch) == ss

\* fault-injected variant: the statement is an upsert
WriteEpochClock_Upsert(ss, target_epoch) ==
    IF ss = {}
    THEN {[start_ts |-> 0, step_seconds |-> DEFAULT_STEP_SECONDS, next_epoch |-> target_epoch]}
    ELSE {[r EXCEPT !.next_epoch = target_epoch] : r \in ss}

\* STEP 4 (887-892)
WriteEpochClock(ss, target_epoch) ==
    {[r EXCEPT !.next_epoch = target_epoch] : r \in ss}

---------------------------------------------------------------------------
(* fast_forward: the statements of main.py 904-1037 *)

\* epochs_to_write = int((hours * 3600) // step_seconds)   (914-916)
\* fault-injected variant: the sign of the request is dropped
EpochsToWrite_Abs(hours, step_seconds) ==
    (Max(hours, 0 - hours) * SECONDS_PER_HOUR) \div StepOr5(step_seconds)

EpochsToWrite(hours, step_seconds) ==
    (hours * SECONDS_PER_HOUR) \div StepOr5(step_seconds)

\* cfg_df (924-928)
EnabledConfig(cfg) == {fc \in cfg : fc.enabled}

\* fault-injected variant: the generator starts at the current epoch
FFInsertNormal_OffByOne(db, epochs_to_write, failure_entities) ==
    IF ~HasClock(db.ss) THEN db.tel
    ELSE LET st == ClockRow(db.ss)
             cand == {[Timestamp |-> Ts(st, n.epoch), entity_id |-> n.entity_id,
                       src |-> "NORMAL", off |-> n.epoch] :
                        n \in {m \in NORMAL_SEED :
                                 /\ \E seq \in 0..(epochs_to_write - 1) :
                                        m.epoch = st.next_epoch + seq
                                 /\ m.entity_id \notin failure_entities}}
         IN AntiJoinInsert(db.tel, cand)

\* fault-injected variant: the bulk insert without its NOT IN filter
FFInsertNormal_NoFilter(db, epochs_to_write, failure_entities) ==
    IF ~HasClock(db.ss) THEN db.tel
    ELSE LET st == ClockRow(db.ss)
             cand == {[Timestamp |-> Ts(st, n.epoch), entity_id |-> n.entity_id,
                       src |-> "NORMAL", off |-> n.epoch] :
                        n \in {m \in NORMAL_SEED :
                                 \E seq \in 0..(epochs_to_write - 1) :
                                     m.epoch = st.next_epoch + seq + 1}}
         IN AntiJoinInsert(db.tel, cand)

\* bulk insert of the normal entities (938-956); failure_entities are the
\* entity ids of cfg_df, excluded whatever their effective_from_epoch
FFInsertNormal(db, epochs_to_write, failure_entities) ==
    IF ~HasClock(db.ss) THEN db.tel
    ELSE LET st == ClockRow(db.ss)
             cand == {[Timestamp |-> Ts(st, n.epoch), entity_id |-> n.entity_id,
                       src |-> "NORMAL", off |-> n.epoch] :
                        n \in {m \in NORMAL_SEED :
                                 /\ \E seq \in 0..(epochs_to_write - 1) :
                                        m.epoch = st.next_epoch + seq + 1
                                 /\ m.entity_id \notin failure_entities}}
         IN AntiJoinInsert(db.tel, cand)

\* seed table chosen for a failure type (966-972): anything else is ELECTRICAL
SeedTableOf(ftype) ==
    IF ftype = "ENGINE" THEN "ENGINE"
    ELSE IF ftype = "TRANSMISSION" THEN "TRANSMISSION"
    ELSE "ELECTRICAL"

\* fault-injected variant: the series is read from the cursor, not after it
FFSeedEpoch_FromCursor(cur, eff, ne, seq) == cur + (seq - Max(0, eff - (ne + 1)))

\* series offset of generator row seq (987)
FFSeedEpoch(cur, eff, ne, seq) == cur + (seq + 1 - Max(0, eff - (ne + 1)))

\* bulk insert of one failure entity (976-992)
FFInsertFailure(db, epochs_to_write, row) ==
    IF ~HasClock(db.ss) THEN db.tel
    ELSE LET st == ClockRow(db.ss)
             seed == SeedTableOf(row.failure_type)
             cand == {[Timestamp |-> Ts(st, st.next_epoch + seq + 1),
                       entity_id |-> row.entity_id, src |-> seed,
                       off |-> FFSeedEpoch(row.failure_next_epoch,
                                           row.effective_from_epoch, st.next_epoch, seq)] :
                        seq \in {q \in 0..(epochs_to_write - 1) :
                                   /\ FFSeedEpoch(row.failure_next_epoch,
                                                  row.effective_from_epoch,
                                                  st.next_epoch, q) \in FailureSeed(seed)
                                   /\ st.next_epoch + q + 1 >= row.effective_from_epoch}}
         IN AntiJoinInsert(db.tel, cand)

\* adv (994-999), from the handler's own ne; 0 stands for "no update queued"
FFAdvance(ne, epochs_to_write, eff) ==
    IF ne + epochs_to_write >= eff
    THEN IF eff > ne THEN Min(epochs_to_write, ne + epochs_to_write - eff + 1)
         ELSE epochs_to_write
    ELSE 0

\* batch update of the cursors (1002-1014); cursor_updates holds <<entity, adv>>
FFCursorUpdate(cfg, cursor_updates) ==
    {IF \E u \in cursor_updates : u[1] = fc.entity_id
     THEN LET u == CHOOSE x \in cursor_updates : x[1] = fc.entity_id
          IN [fc EXCEPT !.failure_next_epoch = fc.failure_next_epoch + u[2]]
     ELSE fc : fc \in cfg}

\* fault-injected variant: the clock advances by one epoch, whatever was written
FFClock_ByOne(ss, epochs_to_write) ==
    {[r EXCEPT !.next_epoch = r.next_epoch + 1] : r \in ss}

\* advance of the global epoch (1018)
FFClock(ss, epochs_to_write) ==
    {[r EXCEPT !.next_epoch = r.next_epoch + epochs_to_write] : r \in ss}

---------------------------------------------------------------------------
(* activate_failure_endpoint, clear_failures, reset_all_data *)

\* eff = ne + 1, ne = 0 without a clock row (1046-1048)
ActivateEff(ss) == (IF HasClock(ss) THEN ClockRow(ss).next_epoch ELSE 0) + 1

\* fault-injected variant: the matched branch starts the series over
ActivateMerge_ResetCursor(cfg, eid, ft, eff) ==
    IF \E fc \in cfg : fc.entity_id = eid
    THEN {IF fc.entity_id = eid
          THEN [fc EXCEPT !.enabled = TRUE, !.failure_type = ft,
                          !.failure_next_epoch = 0, !.effective_from_epoch = eff]
          ELSE fc : fc \in cfg}
    ELSE cfg \cup {[entity_id |-> eid, enabled |-> TRUE, failure_type |-> ft,
                    failure_next_epoch |-> 0, effective_from_epoch |-> eff]}

\* the MERGE into FAILURE_CONFIG (1050-1056)
ActivateMerge(cfg, eid, ft, eff) ==
    IF \E fc \in cfg : fc.entity_id = eid
    THEN {IF fc.entity_id = eid
          THEN [fc EXCEPT !.enabled = TRUE, !.failure_type = ft,
                          !.effective_from_epoch = eff]
          ELSE fc : fc \in cfg}
    ELSE cfg \cup {[entity_id |-> eid, enabled |-> TRUE, failure_type |-> ft,
                    failure_next_epoch |-> 0, effective_from_epoch |-> eff]}

\* fault-injected variant: the fresh clock row starts at epoch 1
ResetInsertClock_FromOne(ss, t) ==
    IF HasClock(ss) THEN ss
    ELSE {[start_ts |-> t, step_seconds |-> RESET_STEP_SECONDS, next_epoch |-> 1]}

\* the INSERT of the fresh clock row (1234-1237); the table's primary key
\* stream_name lets no second row in
ResetInsertClock(ss, t) ==
    IF HasClock(ss) THEN ss
    ELSE {[start_ts |-> t, step_seconds |-> RESET_STEP_SECONDS, next_epoch |-> 0]}

---------------------------------------------------------------------------
(* The handlers as functions of the store: their statements in program order *)

\* write_epoch (803-902)
WriteEpochOp(db) ==
    IF ~HasClock(db.ss) THEN db
    ELSE LET target_epoch == ClockRow(db.ss).next_epoch + 1
         IN [ss  |-> WriteEpochClock(db.ss, target_epoch),
             cfg |-> WriteEpochCursor(db.cfg, target_epoch),
             tel |-> WriteEpochInsert(db, target_epoch)]

\* k calls of write_epoch, one after the other
RECURSIVE WriteTimes(_, _)
WriteTimes(db, k) == IF k <= 0 THEN db ELSE WriteTimes(WriteEpochOp(db), k - 1)

\* the loop over cfg_df (960-992): one bulk insert per row
RECURSIVE FFLoopInserts(_, _, _)
FFLoopInserts(db, epochs_to_write, todo) ==
    IF todo = {} THEN db.tel
    ELSE LET row == CHOOSE r \in todo : TRUE
         IN FFLoopInserts([db EXCEPT !.tel = FFInsertFailure(db, epochs_to_write, row)],
                          epochs_to_write, todo \ {row})

\* fast_forward (904-1037)
FastForwardOp(db, hours) ==
    IF ~HasClock(db.ss) THEN db
    ELSE LET st == ClockRow(db.ss)
             epochs_to_write == EpochsToWrite(hours, st.step_seconds)
             cfg_df == EnabledConfig(db.cfg)
             afterNormal == [db EXCEPT !.tel =
                               FFInsertNormal(db, epochs_to_write,
                                              {r.entity_id : r \in cfg_df})]
             cursor_updates ==
                {<<row.entity_id,
                   FFAdvance(st.next_epoch, epochs_to_write, row.effective_from_epoch)>> :
                   row \in {r \in cfg_df :
                              FFAdvance(st.next_epoch, epochs_to_write,
                                        r.effective_from_epoch) > 0}}
         IN IF epochs_to_write <= 0 THEN db
            ELSE [ss  |-> FFClock(db.ss, epochs_to_write),
                  cfg |-> IF cursor_updates = {} THEN db.cfg
                          ELSE FFCursorUpdate(db.cfg, cursor_updates),
                  tel |-> FFLoopInserts(afterNormal, epochs_to_write, cfg_df)]

\* reset_all_data (1203-1252), the fresh clock row stamped t
ResetOp(db, t) ==
    [ss |-> ResetInsertClock({}, t), cfg |-> {}, tel |-> EmptyBag]

\* get_writer_status (1254-1268)
GetWriterStatus(ss) ==
    IF ~HasClock(ss) THEN [status |-> "not_initialized", epoch |-> 0 - 1, step_seconds |-> 0]
    ELSE [status |-> "initialized", epoch |-> ClockRow(ss).next_epoch,
          step_seconds |-> ClockRow(ss).step_seconds]

\* activate_failure_endpoint (1039-1064)
ActivateOp(db, eid, failure_type) ==
    [db EXCEPT !.cfg = ActivateMerge(db.cfg, eid, Upper(failure_type), ActivateEff(db.ss))]

---------------------------------------------------------------------------
(* Request handlers, one statement per step *)

IdleLoc == [op |-> "none", hours |-> 0, target_epoch |-> 0, ne |-> 0,
            epochs_to_write |-> 0, cfg_df |-> {}, todo |-> {},
            cursor_updates |-> {}, eid |-> "", ft |-> "", eff |-> 0,
            failed |-> FALSE, current_time |-> 0, result |-> {}]
NoRet == [op |-> "none", status |-> "none", value |-> 0]
IdleThread == [kind |-> "none", call_time |-> 0, current_time |-> 0,
               executed |-> FALSE, overlapped |-> FALSE, raised |-> FALSE]
NoOutcome == [status |-> "none", sync |-> "none"]

\* a request is taken up: under serial scheduling by the event loop, one
\* request at a time; under concurrent scheduling by any free worker
CanStart(w) ==
    /\ pc[w] = "idle"
    /\ serial => w = EventLoop
    /\ calls < (IF serial THEN MaxSerialCalls ELSE MaxCalls)

Taken == calls + 1

\* the handler's first statement is done
Goto(w, label, l) ==
    /\ pc' = [pc EXCEPT ![w] = label]
    /\ loc' = [loc EXCEPT ![w] = l]
    /\ calls' = Taken
    /\ UNCHANGED ret

\* the handler reaches its return statement
Return(w, op, status, value) ==
    /\ pc' = [pc EXCEPT ![w] = "done"]
    /\ loc' = [loc EXCEPT ![w] = IdleLoc]
    /\ ret' = [ret EXCEPT ![w] = [op |-> op, status |-> status, value |-> value]]

\* a handler that returns from its first statement
ReturnAtOnce(w, op, status, value) ==
    /\ Return(w, op, status, value)
    /\ calls' = Taken

\* the response is sent and the worker is free again
Respond(w) ==
    /\ pc[w] = "done"
    /\ pc' = [pc EXCEPT ![w] = "idle"]
    /\ ret' = [ret EXCEPT ![w] = NoRet]
    /\ UNCHANGED <<STREAM_STATE, FAILURE_CONFIG, TELEMETRY, derived, caches, now, serial, loc, calls,
                   refresh_in_progress, last_refresh_time, refresh_lock,
                   rpc, rloc, rret, exec_log>>

\* triggers in flight: started and not yet returned
InFlight == {t \in Threads : rpc[t] \notin {"idle", "done"}}

\* history: a trigger that starts while others are in flight overlaps them
MarkOverlap(rl, t) ==
    [u \in Threads |->
        IF InFlight # {} /\ (u = t \/ u \in InFlight)
        THEN [rl[u] EXCEPT !.overlapped = TRUE] ELSE rl[u]]

FreeThread == CHOOSE t \in Threads : rpc[t] = "idle"

\* threading.Thread(target=trigger_refresh_sync).start() (630-631, 1028-1029):
\* a free thread of the pool is about to enter trigger_refresh_sync
SpawnRefresh(kind) ==
    IF \E t \in Threads : rpc[t] = "idle"
    THEN /\ rpc' = [rpc EXCEPT ![FreeThread] = "sync_time"]
         /\ rloc' = MarkOverlap([rloc EXCEPT ![FreeThread] =
                                   [IdleThread EXCEPT !.kind = kind]], FreeThread)
         /\ UNCHANGED rret
    ELSE UNCHANGED <<rpc, rloc, rret>>

othersS == <<now, serial, refresh_in_progress, last_refresh_time, refresh_lock,
             rpc, rloc, rret, exec_log>>
othersW == <<othersS, calls>>

\* write_epoch, STEP 1 (807-814)
WE_Read(w) ==
    /\ CanStart(w)
    /\ \/ /\ ~HasClock(STREAM_STATE)
          /\ ReturnAtOnce(w, "write_epoch", "error", "Stream state not found")
       \/ /\ HasClock(STREAM_STATE)
          /\ ClockRow(STREAM_STATE).next_epoch < MaxEpoch
          /\ Goto(w, "we_insert",
                  [IdleLoc EXCEPT !.op = "write_epoch",
                                  !.target_epoch = ClockRow(STREAM_STATE).next_epoch + 1])
    /\ UNCHANGED <<storeVars, othersS, derived, caches>>

WE_Insert(w) ==
    /\ pc[w] = "we_insert"
    /\ TELEMETRY' = WriteEpochInsert(Store, loc[w].target_epoch)
    /\ pc' = [pc EXCEPT ![w] = "we_cursor"]
    /\ UNCHANGED <<STREAM_STATE, FAILURE_CONFIG, loc, ret, othersW, derived, caches>>

WE_Cursor(w) ==
    /\ pc[w] = "we_cursor"
    /\ FAILURE_CONFIG' = WriteEpochCursor(FAILURE_CONFIG, loc[w].target_epoch)
    /\ pc' = [pc EXCEPT ![w] = "we_clock"]
    /\ UNCHANGED <<STREAM_STATE, TELEMETRY, loc, ret, othersW, derived, caches>>

\* STEP 4, the invalidation of telemetry_cache and the return value (887-899)
WE_Clock(w) ==
    /\ pc[w] = "we_clock"
    /\ STREAM_STATE' = WriteEpochClock(STREAM_STATE, loc[w].target_epoch)
    /\ caches' = Invalidate(caches, {"telemetry"})
    /\ Return(w, "write_epoch", "success", loc[w].target_epoch)
    /\ UNCHANGED <<FAILURE_CONFIG, TELEMETRY, othersW, derived>>

\* fast_forward up to the rejection of a request without epochs (910-919)
FF_Read(w, hours) ==
    /\ CanStart(w)
    /\ \/ /\ ~HasClock(STREAM_STATE)
          /\ ReturnAtOnce(w, "fast_forward", "error", "Stream state not found")
       \/ /\ HasClock(STREAM_STATE)
          /\ EpochsToWrite(hours, ClockRow(STREAM_STATE).step_seconds) <= 0
          /\ ReturnAtOnce(w, "fast_forward", "error", "No epochs to write")
       \/ /\ HasClock(STREAM_STATE)
          /\ LET st == ClockRow(STREAM_STATE)
                 k == EpochsToWrite(hours, st.step_seconds)
             IN /\ k > 0
                /\ st.next_epoch + k <= MaxEpoch
                /\ Goto(w, "ff_cfg",
                        [IdleLoc EXCEPT !.op = "fast_forward", !.hours = hours,
                                        !.ne = st.next_epoch, !.epochs_to_write = k])
    /\ UNCHANGED <<storeVars, othersS, derived, caches>>

\* the read of the failure configuration (924-930)
FF_Cfg(w) ==
    /\ pc[w] = "ff_cfg"
    /\ pc' = [pc EXCEPT ![w] = "ff_normal"]
    /\ loc' = [loc EXCEPT ![w].cfg_df = EnabledConfig(FAILURE_CONFIG),
                          ![w].todo = EnabledConfig(FAILURE_CONFIG)]
    /\ UNCHANGED <<storeVars, ret, othersW, derived, caches>>

AfterLoop(todo, cursor_updates) ==
    IF todo # {} THEN "ff_loop"
    ELSE IF cursor_updates # {} THEN "ff_cursor" ELSE "ff_clock"

FF_Normal(w) ==
    /\ pc[w] = "ff_normal"
    /\ TELEMETRY' = FFInsertNormal(Store, loc[w].epochs_to_write,
                                   {r.entity_id : r \in loc[w].cfg_df})
    /\ pc' = [pc EXCEPT ![w] = AfterLoop(loc[w].todo, loc[w].cursor_updates)]
    /\ UNCHANGED <<STREAM_STATE, FAILURE_CONFIG, loc, ret, othersW, derived, caches>>

\* one iteration of the loop over cfg_df (960-1000), in the order of the result set
FF_Loop(w) ==
    /\ pc[w] = "ff_loop"
    /\ \E row \in loc[w].todo :
         LET adv == FFAdvance(loc[w].ne, loc[w].epochs_to_write, row.effective_from_epoch)
             upd == loc[w].cursor_updates \cup
                      (IF adv > 0 THEN {<<row.entity_id, adv>>} ELSE {})
         IN /\ TELEMETRY' = FFInsertFailure(Store, loc[w].epochs_to_write, row)
            /\ loc' = [loc EXCEPT ![w].todo = loc[w].todo \ {row},
                                  ![w].cursor_updates = upd]
            /\ pc' = [pc EXCEPT ![w] = AfterLoop(loc[w].todo \ {row}, upd)]
    /\ UNCHANGED <<STREAM_STATE, FAILURE_CONFIG, ret, othersW, derived, caches>>

FF_Cursor(w) ==
    /\ pc[w] = "ff_cursor"
    /\ FAILURE_CONFIG' = FFCursorUpdate(FAILURE_CONFIG, loc[w].cursor_updates)
    /\ pc' = [pc EXCEPT ![w] = "ff_clock"]
    /\ UNCHANGED <<STREAM_STATE, TELEMETRY, loc, ret, othersW, derived, caches>>

\* the clock update, the background refresh and the return value (1017-1034)
FF_Clock(w) ==
    /\ pc[w] = "ff_clock"
    /\ STREAM_STATE' = FFClock(STREAM_STATE, loc[w].epochs_to_write)
    /\ IF loc[w].hours >= 1 THEN SpawnRefresh("ff") ELSE UNCHANGED <<rpc, rloc, rret>>
    /\ Return(w, "fast_forward", "success", loc[w].epochs_to_write)
    /\ UNCHANGED <<FAILURE_CONFIG, TELEMETRY, derived, caches, now, serial, calls,
                   refresh_in_progress,
                   last_refresh_time, refresh_lock, exec_log>>

\* A write statement the store rejects: execute_sql logs the error and
\* returns (226-229); the statement has had no effect and the handler goes
\* on with its next statement. `failed` is history.
StatementFails(w, from, to) ==
    /\ pc[w] = from
    /\ pc' = [pc EXCEPT ![w] = to]
    /\ loc' = [loc EXCEPT ![w].failed = TRUE]
    /\ UNCHANGED <<storeVars, ret, othersW, derived, caches>>

WE_InsertFails(w) == StatementFails(w, "we_insert", "we_cursor")
WE_CursorFails(w) == StatementFails(w, "we_cursor", "we_clock")
FF_NormalFails(w) ==
    StatementFails(w, "ff_normal", AfterLoop(loc[w].todo, loc[w].cursor_updates))
FF_CursorFails(w) == StatementFails(w, "ff_cursor", "ff_clock")

\* activate_failure_endpoint: the read of the clock (1043-1048)
AF_Read(w, eid, failure_type) ==
    /\ CanStart(w)
    /\ Goto(w, "af_merge",
            [IdleLoc EXCEPT !.op = "activate", !.eid = eid, !.ft = Upper(failure_type),
                            !.eff = ActivateEff(STREAM_STATE)])
    /\ UNCHANGED <<storeVars, othersS, derived, caches>>

\* the MERGE, the invalidation of failures_cache and the return (1050-1062)
AF_Merge(w) ==
    /\ pc[w] = "af_merge"
    /\ FAILURE_CONFIG' = ActivateMerge(FAILURE_CONFIG, loc[w].eid, loc[w].ft, loc[w].eff)
    /\ caches' = Invalidate(caches, {"failures"})
    /\ Return(w, "activate", "success", loc[w].ft)
    /\ UNCHANGED <<STREAM_STATE, TELEMETRY, othersW, derived>>

\* the query of get_active_failures (1082-1103): the enabled rows whose type
\* has a seed table, OFFLINE once the cursor is past the seed's length
ActiveFailuresResult(cfg) ==
    {[entity_id |-> fc.entity_id, failure_type |-> fc.failure_type,
      effective_from_epoch |-> fc.effective_from_epoch,
      current_failure_epoch |-> fc.failure_next_epoch,
      max_epochs |-> SeedLen[fc.failure_type],
      status |-> IF fc.failure_next_epoch > SeedLen[fc.failure_type]
                 THEN "OFFLINE" ELSE "ACTIVE"] :
        fc \in {f \in cfg : f.enabled /\ f.failure_type \in SeedTypes}}

\* data is not None and (current_time - timestamp) < CACHE_TTL (1073)
CacheFresh(c, current_time) == c.has /\ current_time - c.timestamp < CACHE_TTL

\* get_active_failures: time.time() and the look into failures_cache (1069-1075)
GAF_Time(w) ==
    /\ CanStart(w)
    /\ \E c \in Times :
         /\ c >= now
         /\ now' = c
         /\ IF CacheFresh(caches["failures"], c)
            THEN ReturnAtOnce(w, "active_failures", "success", caches["failures"].data)
            ELSE Goto(w, "gaf_query", [IdleLoc EXCEPT !.op = "active_failures",
                                                      !.current_time = c])
    /\ UNCHANGED <<storeVars, derived, caches, serial, refresh_in_progress,
                   last_refresh_time, refresh_lock, rpc, rloc, rret, exec_log>>

\* the query on FAILURE_CONFIG (1077-1107), outside cache_lock
GAF_Query(w) ==
    /\ pc[w] = "gaf_query"
    /\ pc' = [pc EXCEPT ![w] = "gaf_store"]
    /\ loc' = [loc EXCEPT ![w].result = ActiveFailuresResult(FAILURE_CONFIG)]
    /\ UNCHANGED <<storeVars, derived, caches, ret, othersW>>

\* the update of failures_cache under cache_lock and the return (1109-1114)
GAF_Store(w) ==
    /\ pc[w] = "gaf_store"
    /\ caches' = [caches EXCEPT !["failures"] =
                     [has |-> TRUE, data |-> loc[w].result,
                      timestamp |-> loc[w].current_time, by |-> "active_failures"]]
    /\ Return(w, "active_failures", "success", loc[w].result)
    /\ UNCHANGED <<storeVars, derived, othersW>>

\* clear_failures (1119-1126)
ClearFailures(w) ==
    /\ CanStart(w)
    /\ FAILURE_CONFIG' = {}
    /\ ReturnAtOnce(w, "clear", "success", 0)
    /\ UNCHANGED <<STREAM_STATE, TELEMETRY, othersS, derived, caches>>

\* reset_all_data (1203-1252), statement by statement
RS_Telemetry(w) ==
    /\ CanStart(w)
    /\ TELEMETRY' = EmptyBag
    /\ Goto(w, "rs_markers", [IdleLoc EXCEPT !.op = "reset"])
    /\ UNCHANGED <<STREAM_STATE, FAILURE_CONFIG, othersS, derived, caches>>

\* TRUNCATE TABLE IF EXISTS FIRST_FAILURE_MARKERS (1218-1219)
RS_Markers(w) ==
    /\ pc[w] = "rs_markers"
    /\ FIRST_FAILURE_MARKERS' = {}
    /\ pc' = [pc EXCEPT ![w] = "rs_predictions"]
    /\ UNCHANGED <<storeVars, PREDICTION_CACHE, loc, ret, othersW, caches>>

\* DELETE FROM ACTIVE_FAILURES, DELETE FROM PREDICTION_CACHE (1221-1225)
RS_Predictions(w) ==
    /\ pc[w] = "rs_predictions"
    /\ PREDICTION_CACHE' = {}
    /\ pc' = [pc EXCEPT ![w] = "rs_config"]
    /\ UNCHANGED <<storeVars, FIRST_FAILURE_MARKERS, loc, ret, othersW, caches>>

RS_Config(w) ==
    /\ pc[w] = "rs_config"
    /\ FAILURE_CONFIG' = {}
    /\ pc' = [pc EXCEPT ![w] = "rs_delete"]
    /\ UNCHANGED <<STREAM_STATE, TELEMETRY, loc, ret, othersW, derived, caches>>

RS_Delete(w) ==
    /\ pc[w] = "rs_delete"
    /\ STREAM_STATE' = {}
    /\ pc' = [pc EXCEPT ![w] = "rs_insert"]
    /\ UNCHANGED <<FAILURE_CONFIG, TELEMETRY, loc, ret, othersW, derived, caches>>

\* the INSERT with CURRENT_TIMESTAMP() and the return (1234-1248)
RS_Insert(w) ==
    /\ pc[w] = "rs_insert"
    /\ \E t \in ResetTimes \cup {now} :
         /\ t >= now
         /\ now' = t
         /\ STREAM_STATE' = ResetInsertClock(STREAM_STATE, t)
    /\ Return(w, "reset", "success", 0)
    /\ UNCHANGED <<FAILURE_CONFIG, TELEMETRY, derived, caches, serial, calls,
                   refresh_in_progress,
                   last_refresh_time, refresh_lock, rpc, rloc, rret, exec_log>>

---------------------------------------------------------------------------
(* The refresh coordinator: refresh_predictions (768-788) and               *)
(* trigger_refresh_sync (651-766), one access to the shared globals per step *)

othersR == <<STREAM_STATE, FAILURE_CONFIG, TELEMETRY, serial, pc, loc, ret, calls>>

\* fault-injected variant: the difference is taken the wrong way round
CooldownActive_Swapped(current_time, last) == last - current_time > COOLDOWN

\* current_time - last_refresh_time < 15 (658, 776)
CooldownActive(current_time, last) == current_time - last < COOLDOWN

\* fault-injected variant: the recomputation is not under the lock
LockFree_NoLock(lock) == TRUE

\* `with refresh_lock:` is entered only while no other thread holds the lock (667)
LockFree(lock) == lock = "free"

\* a trigger is taken up; under serial scheduling only when no other is under way
CanTrigger ==
    /\ \E t \in Threads : rpc[t] = "idle"
    /\ serial => \A t \in Threads : rpc[t] = "idle"
    /\ Len(exec_log) < MaxExecs

\* time.time(): the wall clock is read, at or after its last reading
ReadClock(t) == t \in Times /\ t >= now /\ now' = t

RGoto(t, label) == rpc' = [rpc EXCEPT ![t] = label]

\* the trigger is over: refresh_predictions answers with `status`, a
\* background thread ends; sync tells how trigger_refresh_sync went
RReturn(t, status, sync) ==
    /\ rpc' = [rpc EXCEPT ![t] = "done"]
    /\ rret' = [rret EXCEPT ![t] = [status |-> status, sync |-> sync]]

\* POST /api/predictions/refresh arrives; current_time = time.time() (775).
\* The handler runs on the event loop without awaiting, so no two manual
\* triggers overlap; the background threads run beside it.
RP_Time ==
    /\ CanTrigger
    /\ \A u \in InFlight : rloc[u].kind # "manual"
    /\ \E c \in Times :
         /\ ReadClock(c)
         /\ rloc' = MarkOverlap([rloc EXCEPT ![FreeThread] =
                                   [IdleThread EXCEPT !.kind = "manual", !.call_time = c,
                                                      !.current_time = c]], FreeThread)
    /\ RGoto(FreeThread, "rp_cooldown")
    /\ UNCHANGED <<othersR, derived, caches, refreshVars, rret, exec_log>>

\* a background thread is started: by get_latest_predictions on stale
\* predictions (624-631) or by fast_forward (1023-1029)
BackgroundTrigger(kind) ==
    /\ CanTrigger
    /\ SpawnRefresh(kind)
    /\ UNCHANGED <<othersR, derived, caches, refreshVars, now, exec_log>>

\* the cooldown check of refresh_predictions (776-779)
RP_Cooldown(t) ==
    /\ rpc[t] = "rp_cooldown"
    /\ IF CooldownActive(rloc[t].current_time, last_refresh_time)
       THEN RReturn(t, "throttled", "not_called")
       ELSE RGoto(t, "rp_in_progress") /\ UNCHANGED rret
    /\ UNCHANGED <<othersR, derived, caches, refreshVars, now, rloc, exec_log>>

\* the in-progress check of refresh_predictions (782-784)
RP_InProgress(t) ==
    /\ rpc[t] = "rp_in_progress"
    /\ IF refresh_in_progress
       THEN RReturn(t, "in_progress", "not_called")
       ELSE RGoto(t, "sync_time") /\ UNCHANGED rret
    /\ UNCHANGED <<othersR, derived, caches, refreshVars, now, rloc, exec_log>>

\* fault-injected variant: every trigger reports that it was throttled
StatusAfterSync_Throttled(kind) == "throttled"

\* the value refresh_predictions returns after trigger_refresh_sync (788)
StatusAfterSync(kind) == IF kind = "manual" THEN "success" ELSE "none"

\* trigger_refresh_sync: current_time = time.time() (657)
TS_Time(t) ==
    /\ rpc[t] = "sync_time"
    /\ \E c \in Times :
         /\ ReadClock(c)
         /\ rloc' = [rloc EXCEPT ![t].current_time = c,
                                 ![t].call_time = IF rloc[t].kind = "manual"
                                                  THEN rloc[t].call_time ELSE c]
    /\ RGoto(t, "sync_cooldown")
    /\ UNCHANGED <<othersR, derived, caches, refreshVars, rret, exec_log>>

\* (658-660)
TS_Cooldown(t) ==
    /\ rpc[t] = "sync_cooldown"
    /\ IF CooldownActive(rloc[t].current_time, last_refresh_time)
       THEN RReturn(t, StatusAfterSync(rloc[t].kind), "cooldown")
       ELSE RGoto(t, "sync_in_progress") /\ UNCHANGED rret
    /\ UNCHANGED <<othersR, derived, caches, refreshVars, now, rloc, exec_log>>

\* (663-665)
TS_InProgress(t) ==
    /\ rpc[t] = "sync_in_progress"
    /\ IF refresh_in_progress
       THEN RReturn(t, StatusAfterSync(rloc[t].kind), "in_progress")
       ELSE RGoto(t, "acquire") /\ UNCHANGED rret
    /\ UNCHANGED <<othersR, derived, caches, refreshVars, now, rloc, exec_log>>

\* with refresh_lock: (667)
TS_Acquire(t) ==
    /\ rpc[t] = "acquire"
    /\ LockFree(refresh_lock)
    /\ refresh_lock' = t
    /\ RGoto(t, "set_in_progress")
    /\ UNCHANGED <<othersR, derived, caches, refresh_in_progress, last_refresh_time, now, rloc, rret,
                   exec_log>>

\* refresh_in_progress = True (668): the recomputation starts
TS_SetInProgress(t) ==
    /\ rpc[t] = "set_in_progress"
    /\ refresh_in_progress' = TRUE
    /\ exec_log' = Append(exec_log, now)
    /\ rloc' = [rloc EXCEPT ![t].executed = TRUE]
    /\ RGoto(t, "set_time")
    /\ UNCHANGED <<othersR, derived, caches, last_refresh_time, refresh_lock, now, rret>>

\* last_refresh_time = current_time (669)
TS_SetTime(t) ==
    /\ rpc[t] = "set_time"
    /\ last_refresh_time' = rloc[t].current_time
    /\ RGoto(t, "merge_cache")
    /\ UNCHANGED <<othersR, derived, caches, refresh_in_progress, refresh_lock, now, rloc, rret, exec_log>>

\* the statements of the recomputation (673-762): the upsert of
\* PREDICTION_CACHE, the insert into and the delete from
\* FIRST_FAILURE_MARKERS, the invalidation of the read caches
\* fault-injected variant: the last statement of the try block leaves the
\* function without its finally clause
BodyNext_SkipFinally(label) ==
    CASE label = "merge_cache" -> "insert_markers"
      [] label = "insert_markers" -> "delete_markers"
      [] label = "delete_markers" -> "invalidate"
      [] label = "invalidate" -> "release"

BodyNext(label) ==
    CASE label = "merge_cache" -> "insert_markers"
      [] label = "insert_markers" -> "delete_markers"
      [] label = "delete_markers" -> "invalidate"
      [] label = "invalidate" -> "finally"

\* the latest prediction per entity the predictive view can yield (677-688)
PredictedEntities == {"T1"}
ViewRow(e, p, ts) == [entity_id |-> e, ptype |-> p, ptime |-> ts]
Views ==
    {{}} \cup {{ViewRow(e, "ENGINE", 3700)} : e \in PredictedEntities}
         \cup {{ViewRow(e, "ENGINE", 7200)} : e \in PredictedEntities}
         \cup {{ViewRow(e, "NORMAL", 7200)} : e \in PredictedEntities}

\* MERGE INTO PREDICTION_CACHE ... ON target.ENTITY_ID = source.ENTITY_ID (675-721)
MergeCache(cache, view) ==
    {r \in cache : ~(\E v \in view : v.entity_id = r.entity_id)} \cup view

\* TIME_SLICE(ts, 5, 'MINUTE', 'START') (735)
TimeSlice(ts) == ts - (ts % MARKER_SLICE_SECONDS)

\* fault-injected variant: the insert without its NOT EXISTS condition
InsertMarkers_NoExists(markers, cache) ==
    markers \cup
    {[entity_id |-> p.entity_id, failure_type |-> p.ptype,
      first_failure_time |-> TimeSlice(p.ptime)] :
        p \in {q \in cache : q.ptype # "NORMAL"}}

\* INSERT INTO FIRST_FAILURE_MARKERS ... WHERE p.PREDICTED_FAILURE_TYPE != 'NORMAL'
\* AND NOT EXISTS (a marker of the entity with that type)   (726-745)
InsertMarkers(markers, cache) ==
    markers \cup
    {[entity_id |-> p.entity_id, failure_type |-> p.ptype,
      first_failure_time |-> TimeSlice(p.ptime)] :
        p \in {q \in cache :
                 /\ q.ptype # "NORMAL"
                 /\ ~(\E m \in markers : /\ m.entity_id = q.entity_id
                                         /\ m.failure_type = q.ptype)}}

\* the DELETE of the markers of cleared entities (748-755). The statement is
\* a plain string, not an f-string: the store receives the text
\* "DELETE FROM {FIRST_FAILURE_MARKERS} ...", rejects it, and execute_sql
\* logs the error (226-229). No marker is deleted.
DeleteMarkers(markers, cache) == markers

\* one statement of the recomputation. execute_sql swallows a store error
\* (226-229), so a failing statement has no effect and the body goes on.
TS_Body(t) ==
    /\ rpc[t] \in {"merge_cache", "insert_markers", "delete_markers", "invalidate"}
    /\ \E ok \in BOOLEAN, view \in Views :
         /\ PREDICTION_CACHE' =
               IF ok /\ rpc[t] = "merge_cache"
               THEN MergeCache(PREDICTION_CACHE, view) ELSE PREDICTION_CACHE
         /\ FIRST_FAILURE_MARKERS' =
               IF ok /\ rpc[t] = "insert_markers"
               THEN InsertMarkers(FIRST_FAILURE_MARKERS, PREDICTION_CACHE)
               ELSE IF ok /\ rpc[t] = "delete_markers"
               THEN DeleteMarkers(FIRST_FAILURE_MARKERS, PREDICTION_CACHE)
               ELSE FIRST_FAILURE_MARKERS
    /\ caches' = IF rpc[t] = "invalidate"
                 THEN Invalidate(caches, {"predictions", "markers"}) ELSE caches
    /\ RGoto(t, BodyNext(rpc[t]))
    /\ UNCHANGED <<othersR, refreshVars, now, rloc, rret, exec_log>>

\* except Exception (763-764): an exception inside the try block ends the
\* recomputation where it is; it is logged, not raised
TS_Except(t) ==
    /\ rpc[t] \in {"merge_cache", "insert_markers", "delete_markers", "invalidate"}
    /\ rloc' = [rloc EXCEPT ![t].raised = TRUE]
    /\ RGoto(t, "finally")
    /\ UNCHANGED <<othersR, derived, caches, refreshVars, now, rret, exec_log>>

\* finally: refresh_in_progress = False (765-766)
TS_Finally(t) ==
    /\ rpc[t] = "finally"
    /\ refresh_in_progress' = FALSE
    /\ RGoto(t, "release")
    /\ UNCHANGED <<othersR, derived, caches, last_refresh_time, refresh_lock, now, rloc, rret, exec_log>>

\* the with block is left; trigger_refresh_sync returns
TS_Release(t) ==
    /\ rpc[t] = "release"
    /\ refresh_lock' = "free"
    /\ RReturn(t, StatusAfterSync(rloc[t].kind), "executed")
    /\ UNCHANGED <<othersR, derived, caches, refresh_in_progress, last_refresh_time, now, rloc, exec_log>>

\* the response is sent (the thread ends) and the slot is free again
TriggerOver(t) ==
    /\ rpc[t] = "done"
    /\ rpc' = [rpc EXCEPT ![t] = "idle"]
    /\ rloc' = [rloc EXCEPT ![t] = IdleThread]
    /\ rret' = [rret EXCEPT ![t] = NoOutcome]
    /\ UNCHANGED <<othersR, derived, caches, refreshVars, now, exec_log>>

---------------------------------------------------------------------------
(* Specifications *)

Init ==
    /\ \E s \in InitStepChoices :
         STREAM_STATE = {[start_ts |-> 0, step_seconds |-> s, next_epoch |-> 0]}
    /\ FAILURE_CONFIG = {}
    /\ TELEMETRY = EmptyBag
    /\ PREDICTION_CACHE = {}
    /\ FIRST_FAILURE_MARKERS = {}
    /\ caches = [c \in CacheNames |-> EmptyCache]
    /\ now = StartNow
    /\ serial \in BOOLEAN
    /\ pc = [w \in Workers |-> "idle"]
    /\ loc = [w \in Workers |-> IdleLoc]
    /\ ret = [w \in Workers |-> NoRet]
    /\ calls = 0
    /\ refresh_in_progress = FALSE
    /\ last_refresh_time = 0
    /\ refresh_lock = "free"
    /\ rpc = [t \in Threads |-> "idle"]
    /\ rloc = [t \in Threads |-> IdleThread]
    /\ rret = [t \in Threads |-> NoOutcome]
    /\ exec_log = <<>>

NextStore ==
    \E w \in Workers :
       \/ WE_Read(w) \/ WE_Insert(w) \/ WE_Cursor(w) \/ WE_Clock(w)
       \/ \E hours \in Hours : FF_Read(w, hours)
       \/ FF_Cfg(w) \/ FF_Normal(w) \/ FF_Loop(w) \/ FF_Cursor(w) \/ FF_Clock(w)
       \/ \E eid \in Entities, ft \in FailureTypeInputs : AF_Read(w, eid, ft)
       \/ AF_Merge(w)
       \/ ClearFailures(w)
       \/ RS_Telemetry(w) \/ RS_Markers(w) \/ RS_Predictions(w)
       \/ RS_Config(w) \/ RS_Delete(w) \/ RS_Insert(w)
       \/ Respond(w)

SpecStore == Init /\ [][NextStore]_vars

\* the same requests without reset_all_data
NextNoReset ==
    \E w \in Workers :
       \/ WE_Read(w) \/ WE_Insert(w) \/ WE_Cursor(w) \/ WE_Clock(w)
       \/ \E hours \in Hours : FF_Read(w, hours)
       \/ FF_Cfg(w) \/ FF_Normal(w) \/ FF_Loop(w) \/ FF_Cursor(w) \/ FF_Clock(w)
       \/ \E eid \in Entities, ft \in FailureTypeInputs : AF_Read(w, eid, ft)
       \/ AF_Merge(w)
       \/ ClearFailures(w)
       \/ Respond(w)

SpecNoReset == Init /\ [][NextNoReset]_vars

\* the same requests with write statements that can fail
NextFaulty ==
    \/ NextNoReset
    \/ \E w \in Workers :
          \/ WE_InsertFails(w) \/ WE_CursorFails(w)
          \/ FF_NormalFails(w) \/ FF_CursorFails(w)

SpecFaulty == Init /\ [][NextFaulty]_vars

\* the requests on the store, served by the event loop, beside the refresh
\* threads fast_forward starts
NextRegistry ==
    \/ (serial /\ calls < MaxRegistryCalls /\ WE_Read(EventLoop))
    \/ WE_Insert(EventLoop) \/ WE_Cursor(EventLoop) \/ WE_Clock(EventLoop)
    \/ \E hours \in Hours :
          (serial /\ calls < MaxRegistryCalls /\ FF_Read(EventLoop, hours))
    \/ FF_Cfg(EventLoop) \/ FF_Normal(EventLoop) \/ FF_Loop(EventLoop)
    \/ FF_Cursor(EventLoop) \/ FF_Clock(EventLoop)
    \/ \E eid \in Entities, ft \in FailureTypeInputs :
          (serial /\ calls < MaxRegistryCalls /\ AF_Read(EventLoop, eid, ft))
    \/ AF_Merge(EventLoop)
    \/ (serial /\ calls < MaxRegistryCalls /\ ClearFailures(EventLoop))
    \/ (serial /\ calls < MaxRegistryCalls /\ RS_Telemetry(EventLoop))
    \/ RS_Markers(EventLoop) \/ RS_Predictions(EventLoop)
    \/ RS_Config(EventLoop) \/ RS_Delete(EventLoop) \/ RS_Insert(EventLoop)
    \/ Respond(EventLoop)
    \/ \E t \in Threads :
          \/ TS_Time(t) \/ TS_Cooldown(t) \/ TS_InProgress(t)
          \/ TS_Acquire(t) \/ TS_SetInProgress(t) \/ TS_SetTime(t)
          \/ TS_Body(t) \/ TS_Except(t) \/ TS_Finally(t) \/ TS_Release(t)
          \/ TriggerOver(t)

SpecRegistry == Init /\ [][NextRegistry]_vars

\* the requests that change the failure registry beside the cached read of it
NextCache ==
    \/ NextNoReset
    \/ \E w \in Workers : GAF_Time(w) \/ GAF_Query(w) \/ GAF_Store(w)

SpecCache == Init /\ [][NextCache]_vars

\* activate_failure beside the cached read of the registry and nothing else:
\* the registry changes in the MERGE of an activation only
NextActivateRead ==
    \E w \in Workers :
       \/ \E eid \in Entities, ft \in FailureTypeInputs : AF_Read(w, eid, ft)
       \/ AF_Merge(w)
       \/ GAF_Time(w) \/ GAF_Query(w) \/ GAF_Store(w)
       \/ Respond(w)

SpecActivateRead == Init /\ [][NextActivateRead]_vars

NextRefresh ==
    \/ RP_Time
    \/ \E kind \in {"auto", "ff"} : BackgroundTrigger(kind)
    \/ \E t \in Threads :
          \/ RP_Cooldown(t) \/ RP_InProgress(t)
          \/ TS_Time(t) \/ TS_Cooldown(t) \/ TS_InProgress(t)
          \/ TS_Acquire(t) \/ TS_SetInProgress(t) \/ TS_SetTime(t)
          \/ TS_Body(t) \/ TS_Except(t) \/ TS_Finally(t) \/ TS_Release(t)
          \/ TriggerOver(t)

SpecRefresh == Init /\ [][NextRefresh]_vars

\* A thread inside trigger_refresh_sync is an operating-system thread that
\* holds refresh_lock and waits for nothing but its own store statements: it
\* keeps taking steps until it has left the function.
FairRefresh ==
    \A t \in Threads :
       WF_vars(TS_SetTime(t) \/ TS_Body(t) \/ TS_Finally(t) \/ TS_Release(t))

\* manual and background triggers
NextFair ==
    \/ Len(exec_log) < MaxFairExecs /\ RP_Time
    \/ Len(exec_log) < MaxFairExecs /\ BackgroundTrigger("auto")
    \/ \E t \in Threads :
          \/ RP_Cooldown(t) \/ RP_InProgress(t)
          \/ TS_Time(t) \/ TS_Cooldown(t) \/ TS_InProgress(t)
          \/ TS_Acquire(t) \/ TS_SetInProgress(t) \/ TS_SetTime(t)
          \/ TS_Body(t) \/ TS_Except(t) \/ TS_Finally(t) \/ TS_Release(t)
          \/ TriggerOver(t)

SpecRefreshFair == Init /\ [][NextFair]_vars /\ FairRefresh

\* the background refresh threads beside reset_all_data on the event loop,
\* the other writer of the derived tables
NextMarkers ==
    \/ BackgroundTrigger("auto")
    \/ \E t \in Threads :
          \/ TS_Time(t) \/ TS_Cooldown(t) \/ TS_InProgress(t)
          \/ TS_Acquire(t) \/ TS_SetInProgress(t) \/ TS_SetTime(t)
          \/ TS_Body(t) \/ TS_Except(t) \/ TS_Finally(t) \/ TS_Release(t)
          \/ TriggerOver(t)
    \/ (calls < MaxMarkerResets /\ RS_Telemetry(EventLoop))
    \/ RS_Markers(EventLoop) \/ RS_Predictions(EventLoop)
    \/ RS_Config(EventLoop) \/ RS_Delete(EventLoop) \/ RS_Insert(EventLoop)
    \/ Respond(EventLoop)

SpecMarkers == Init /\ [][NextMarkers]_vars

---------------------------------------------------------------------------
(* The reads of the predictions: get_latest_predictions (557-646) and the   *)
(* predictions part of get_dashboard_data (302-469)                          *)

\* a read of the predictions is taken up: it changes no table and is not
\* counted among the requests
CanRead(w) == pc[w] = "idle" /\ (serial => w = EventLoop)

\* SQL NULL in a time or an age column
NULL == 0 - 1

SetMax(S) == CHOOSE x \in S : \A y \in S : y <= x

\* SELECT MAX(TIMESTAMP) FROM TELEMETRY (563-566)
LatestTelemetryTime(tel) ==
    IF Rows(tel) = {} THEN NULL ELSE SetMax({r.Timestamp : r \in Rows(tel)})

\* MAX(TIMESTAMP) ... GROUP BY ENTITY_ID, left-joined to the prediction (369-375, 386)
LatestTelemetryOf(tel, e) ==
    LatestTelemetryTime(SetToBag({r \in Rows(tel) : r.entity_id = e}))

\* DATEDIFF(MINUTE, a, b): the minute boundaries between the two times
DateDiffMinute(a, b) == (b \div SECONDS_PER_MINUTE) - (a \div SECONDS_PER_MINUTE)

\* AGE_MINUTES of get_latest_predictions (588-592): 0 unless the latest
\* telemetry is at or after the prediction
AgeMinutes(ptime, latest) ==
    IF latest # NULL /\ latest >= ptime THEN DateDiffMinute(ptime, latest) ELSE 0

\* the query of get_latest_predictions (561-609)
LatestPredictions(cache, tel) ==
    {[entity_id |-> p.entity_id, ptype |-> p.ptype, ptime |-> p.ptime,
      latest |-> LatestTelemetryTime(tel),
      age_minutes |-> AgeMinutes(p.ptime, LatestTelemetryTime(tel))] : p \in cache}

\* the predictions query of get_dashboard_data (360-388): the age is the
\* plain DATEDIFF, NULL for an entity without telemetry
DashboardPredictions(cache, tel) ==
    {[entity_id |-> p.entity_id, ptype |-> p.ptype, ptime |-> p.ptime,
      latest |-> LatestTelemetryOf(tel, p.entity_id),
      age_minutes |-> IF LatestTelemetryOf(tel, p.entity_id) = NULL THEN NULL
                      ELSE DateDiffMinute(p.ptime, LatestTelemetryOf(tel, p.entity_id))] :
        p \in cache}

\* df['AGE_MINUTES'].max() (621)
MaxAge(df) == SetMax({r.age_minutes : r \in df})

\* not df.empty and max_age >= 60 (616-624)
IsStale(df) == df # {} /\ MaxAge(df) >= STALE_MINUTES

\* get_latest_predictions (557-646): the query, the start of the refresh
\* thread on stale predictions (624-631) and the return of the rows
GetLatestPredictions(w) ==
    /\ CanRead(w)
    /\ LET df == LatestPredictions(PREDICTION_CACHE, TELEMETRY)
       IN /\ IF IsStale(df)
             THEN /\ CanTrigger
                  /\ SpawnRefresh("auto")
             ELSE UNCHANGED <<rpc, rloc, rret>>
          /\ Return(w, "predictions", "success", df)
    /\ UNCHANGED <<storeVars, derived, caches, now, serial, calls, refreshVars, exec_log>>

\* the latest row of every entity (325-347)
LatestTelemetryRows(tel) ==
    {r \in Rows(tel) : r.Timestamp = LatestTelemetryOf(tel, r.entity_id)}

\* one cached part of get_dashboard_data: served from the cache while it is
\* fresh, computed and stored otherwise
CachedPart(c, current_time, computed) ==
    IF CacheFresh(c, current_time) THEN c
    ELSE [has |-> TRUE, data |-> computed, timestamp |-> current_time,
          by |-> "dashboard"]

\* get_dashboard_data (302-469), without the chart aggregate. No statement of
\* the program writes ACTIVE_FAILURES: its rows are the empty set. The
\* markers are fetched with the charts only.
GetDashboardData(w, include_charts) ==
    /\ CanRead(w)
    /\ \E c \in Times :
         /\ c >= now
         /\ now' = c
         /\ caches' =
               [n \in CacheNames |->
                  CASE n = "telemetry" ->
                         CachedPart(caches[n], c, LatestTelemetryRows(TELEMETRY))
                    [] n = "predictions" ->
                         CachedPart(caches[n], c,
                                    DashboardPredictions(PREDICTION_CACHE, TELEMETRY))
                    [] n = "failures" -> CachedPart(caches[n], c, {})
                    [] n = "markers" ->
                         IF include_charts
                         THEN CachedPart(caches[n], c, FIRST_FAILURE_MARKERS)
                         ELSE caches[n]]
    /\ Return(w, "dashboard", "success",
              [telemetry |-> caches'["telemetry"].data,
               predictions |-> caches'["predictions"].data,
               failures |-> caches'["failures"].data,
               markers |-> IF include_charts THEN caches'["markers"].data ELSE {}])
    /\ UNCHANGED <<storeVars, derived, serial, calls, refreshVars, threadVars>>

\* one request at a time on the event loop: the writer, the manual refresh of
\* an empty cache and the two reads of the predictions, beside the refresh
\* thread they start
NextStale ==
    \/ (serial /\ WE_Read(EventLoop))
    \/ WE_Insert(EventLoop) \/ WE_Cursor(EventLoop) \/ WE_Clock(EventLoop)
    \/ (serial /\ GetLatestPredictions(EventLoop))
    \/ \E include_charts \in BOOLEAN :
          (serial /\ GetDashboardData(EventLoop, include_charts))
    \/ Respond(EventLoop)
    \/ (serial /\ PREDICTION_CACHE = {} /\ RP_Time)
    \/ \E t \in Threads :
          \/ RP_Cooldown(t) \/ RP_InProgress(t)
          \/ TS_Time(t) \/ TS_Cooldown(t) \/ TS_InProgress(t)
          \/ TS_Acquire(t) \/ TS_SetInProgress(t) \/ TS_SetTime(t)
          \/ TS_Body(t) \/ TS_Except(t) \/ TS_Finally(t) \/ TS_Release(t)
          \/ TriggerOver(t)

SpecStale == Init /\ [][NextStale]_vars

\* one request at a time: activate_failure and the two read paths that go
\* through failures_cache
NextSharedCache ==
    \/ \E eid \in Entities, ft \in FailureTypeInputs :
          (serial /\ AF_Read(EventLoop, eid, ft))
    \/ AF_Merge(EventLoop)
    \/ (serial /\ GAF_Time(EventLoop))
    \/ GAF_Query(EventLoop) \/ GAF_Store(EventLoop)
    \/ \E include_charts \in BOOLEAN :
          (serial /\ GetDashboardData(EventLoop, include_charts))
    \/ Respond(EventLoop)

SpecSharedCache == Init /\ [][NextSharedCache]_vars

\* one request at a time: the requests that fill the store, reset_all_data
\* and the cached reads
NextResetReads ==
    \/ (serial /\ WE_Read(EventLoop))
    \/ WE_Insert(EventLoop) \/ WE_Cursor(EventLoop) \/ WE_Clock(EventLoop)
    \/ \E eid \in Entities, ft \in FailureTypeInputs :
          (serial /\ AF_Read(EventLoop, eid, ft))
    \/ AF_Merge(EventLoop)
    \/ (serial /\ RS_Telemetry(EventLoop))
    \/ RS_Markers(EventLoop) \/ RS_Predictions(EventLoop)
    \/ RS_Config(EventLoop) \/ RS_Delete(EventLoop) \/ RS_Insert(EventLoop)
    \/ (serial /\ GAF_Time(EventLoop))
    \/ GAF_Query(EventLoop) \/ GAF_Store(EventLoop)
    \/ \E include_charts \in BOOLEAN :
          (serial /\ GetDashboardData(EventLoop, include_charts))
    \/ Respond(EventLoop)

SpecResetReads == Init /\ [][NextResetReads]_vars

\* requests are taken up while fewer than MaxFairExecs recomputations have started
FairGuard == serial /\ Len(exec_log) < MaxFairExecs

\* a read of the predictions, by either endpoint
ReadOfPredictions ==
    /\ FairGuard
    /\ \/ GetLatestPredictions(EventLoop)
       \/ GetDashboardData(EventLoop, FALSE)

NextStaleFair ==
    \/ (FairGuard /\ WE_Read(EventLoop))
    \/ WE_Insert(EventLoop) \/ WE_Cursor(EventLoop) \/ WE_Clock(EventLoop)
    \/ (FairGuard /\ GetLatestPredictions(EventLoop))
    \/ (FairGuard /\ GetDashboardData(EventLoop, FALSE))
    \/ Respond(EventLoop)
    \/ (FairGuard /\ PREDICTION_CACHE = {} /\ RP_Time)
    \/ \E t \in Threads :
          \/ RP_Cooldown(t) \/ RP_InProgress(t)
          \/ TS_Time(t) \/ TS_Cooldown(t) \/ TS_InProgress(t)
          \/ TS_Acquire(t) \/ TS_SetInProgress(t) \/ TS_SetTime(t)
          \/ TS_Body(t) \/ TS_Except(t) \/ TS_Finally(t) \/ TS_Release(t)
          \/ TriggerOver(t)

\* The refresh thread is an operating-system thread and takes its steps; the
\* wall clock it reads goes on; the event loop runs a handler it has entered
\* to its end and sends the response; and, the premise of the self-healing,
\* the predictions are read again and again.
FairStale ==
    /\ FairRefresh
    /\ \A t \in Threads :
          /\ WF_vars(RP_Cooldown(t) \/ RP_InProgress(t) \/ TS_Time(t)
                       \/ TS_Cooldown(t) \/ TS_InProgress(t) \/ TS_Acquire(t)
                       \/ TS_SetInProgress(t) \/ TriggerOver(t))
          /\ SF_vars(TS_Time(t) /\ now' > now)
    /\ WF_vars(WE_Insert(EventLoop) \/ WE_Cursor(EventLoop) \/ WE_Clock(EventLoop)
                \/ Respond(EventLoop))
    /\ SF_vars(ReadOfPredictions)

SpecStaleFair == Init /\ [][NextStaleFair]_vars /\ FairStale

---------------------------------------------------------------------------
(* Properties of the refresh coordinator (SpecRefresh) *)

\* positions inside the `with refresh_lock:` block
BodyLabels == {"set_in_progress", "set_time", "merge_cache", "insert_markers",
               "delete_markers", "invalidate", "finally", "release"}
Executing == {t \in Threads : rpc[t] \in BodyLabels}

\* C1: under any interleaving of manual, auto and fast-forward triggers, at
\* most one thread is inside the recomputation (between taking and leaving
\* refresh_lock) at any instant.
C1_SingleFlight == Cardinality(Executing) <= 1

\* one trigger recomputes while another, of a different origin, waits for the lock
C1_Witness ==
    \E t, u \in Threads :
       /\ rpc[t] \in {"merge_cache", "insert_markers", "delete_markers"}
       /\ rpc[u] = "acquire"
       /\ rloc[t].kind # rloc[u].kind

\* C2: the recomputation is started at most once per cooldown window: any
\* two recorded starts are at least COOLDOWN seconds apart.
C2_OncePerCooldown ==
    \A i, j \in DOMAIN exec_log :
       i < j => exec_log[j] - exec_log[i] >= COOLDOWN

\* how many of the triggers in S ran the recomputation
ExecutedBy(S) == Cardinality({t \in S : rloc[t].executed})
ReturnedInProgress(t) ==
    rret[t].status = "in_progress" \/ rret[t].sync = "in_progress"

\* C3: of two triggers that ran concurrently, with no refresh before them,
\* exactly one ran the recomputation and the other came back with
\* (already) in_progress.
C3_ExactlyOneExecutes ==
    \A t, u \in Threads :
       ( /\ t # u
         /\ rpc[t] = "done" /\ rpc[u] = "done"
         /\ rloc[t].overlapped /\ rloc[u].overlapped
         /\ Len(exec_log) = ExecutedBy({t, u}) )
       => \/ rloc[t].executed /\ ~rloc[u].executed /\ ReturnedInProgress(u)
          \/ rloc[u].executed /\ ~rloc[t].executed /\ ReturnedInProgress(t)

\* the recomputations started before trigger t's own
PrevExecs(t) ==
    IF rloc[t].executed THEN SubSeq(exec_log, 1, Len(exec_log) - 1) ELSE exec_log

\* C4: under serial scheduling, a manual trigger called less than COOLDOWN
\* seconds after the start of the latest recomputation returns throttled and
\* does not run the recomputation.
C4_SecondCallThrottled ==
    serial =>
      \A t \in Threads :
         ( /\ rpc[t] = "done"
           /\ rloc[t].kind = "manual"
           /\ PrevExecs(t) # <<>>
           /\ rloc[t].call_time - PrevExecs(t)[Len(PrevExecs(t))] < COOLDOWN )
         => rret[t].status = "throttled" /\ ~rloc[t].executed

\* a manual call made a while (but less than the cooldown) after a
\* recomputation has come back throttled
C4_Witness ==
    /\ serial
    /\ \E t \in Threads :
         /\ rpc[t] = "done"
         /\ rloc[t].kind = "manual"
         /\ rret[t].status = "throttled"
         /\ exec_log # <<>>
         /\ rloc[t].call_time > exec_log[Len(exec_log)]
         /\ rloc[t].call_time - exec_log[Len(exec_log)] < COOLDOWN

---------------------------------------------------------------------------
(* Properties of the writers (SpecStore, SpecNoReset) *)

\* no row is stored twice and no two rows share (Timestamp, entity_id)
NoDup(tel) ==
    \A r \in Rows(tel) :
       /\ CopiesIn(r, tel) = 1
       /\ \A q \in Rows(tel) : Key(q) = Key(r) => q = r

\* the rows of one entity, each with the number of its copies
EntityRows(tel, e) == {<<r, CopiesIn(r, tel)>> : r \in {q \in Rows(tel) : q.entity_id = e}}

\* serial scheduling, between two requests, with a clock row
SeqQuiet ==
    /\ serial
    /\ \A w \in Workers : pc[w] \in {"idle", "done"}
    /\ HasClock(STREAM_STATE)

EnabledRow(cfg, e) == \E fc \in cfg : fc.entity_id = e /\ fc.enabled
CursorOf(cfg, e) == (CHOOSE fc \in cfg : fc.entity_id = e).failure_next_epoch
NextEpochOf(db) == ClockRow(db.ss).next_epoch

\* fast-forward requests that stay within the model's epochs
FeasibleHours ==
    {h \in 1..MaxHours :
        /\ EpochsToWrite(h, ClockRow(STREAM_STATE).step_seconds) >= 1
        /\ NextEpoch + EpochsToWrite(h, ClockRow(STREAM_STATE).step_seconds) <= MaxEpoch}
KOf(h) == EpochsToWrite(h, ClockRow(STREAM_STATE).step_seconds)

\* C5 as stated: two calls of write_epoch, one after the other with nothing
\* in between, leave no duplicate rows and next_epoch advanced by exactly 1.
C5_TwiceAdvancesOne ==
    SeqQuiet =>
       /\ NoDup(WriteTimes(Store, 2).tel)
       /\ NextEpochOf(WriteTimes(Store, 2)) = NextEpoch + 1

\* C5 amended: two calls of write_epoch, one after the other with nothing in
\* between, leave no duplicate rows and advance next_epoch by one each, by
\* exactly 2 together.
C5_TwiceAdvancesTwo ==
    SeqQuiet =>
       /\ NoDup(WriteTimes(Store, 1).tel)
       /\ NoDup(WriteTimes(Store, 2).tel)
       /\ NextEpochOf(WriteTimes(Store, 1)) = NextEpoch + 1
       /\ NextEpochOf(WriteTimes(Store, 2)) = NextEpoch + 2

\* the second of two requests, a write_epoch, has returned epoch 2 and the
\* rows of both epochs are there
C5_Witness ==
    /\ SeqQuiet
    /\ calls = 2
    /\ pc[EventLoop] = "done"
    /\ ret[EventLoop].op = "write_epoch"
    /\ ret[EventLoop].status = "success"
    /\ ret[EventLoop].value = 2
    /\ NextEpoch = 2
    /\ \A e \in Entities :
          \A k \in 1..2 : \E r \in Rows(TELEMETRY) :
              r.entity_id = e /\ r.Timestamp = Ts(ClockRow(STREAM_STATE), k)

\* C6: in every reachable state, whatever the interleaving of the statements
\* of write_epoch, fast_forward, activate, clear and reset, no two TELEMETRY
\* rows share (Timestamp, entity_id).
C6_UniqueKey == NoDup(TELEMETRY)

\* two overlapping write_epoch calls with the same target are both past their
\* insert, so the later insert found the rows of the epoch already there
C6_Witness ==
    /\ ~serial
    /\ \E w, v \in Workers :
         /\ w # v
         /\ pc[w] \in {"we_cursor", "we_clock"}
         /\ pc[v] \in {"we_cursor", "we_clock"}
         /\ loc[w].target_epoch = loc[v].target_epoch
         /\ HasClock(STREAM_STATE)
         /\ \A e \in Entities : \E r \in Rows(TELEMETRY) :
               /\ r.entity_id = e
               /\ r.Timestamp = Ts(ClockRow(STREAM_STATE), loc[w].target_epoch)

\* C7: for an entity without an enabled failure and every K >= 1, a
\* fast_forward of K epochs leaves the same TELEMETRY rows for the entity as
\* K calls of write_epoch from the same state.
C7_NormalEquivalence ==
    SeqQuiet =>
       \A h \in FeasibleHours : \A e \in Entities :
          ~EnabledRow(FAILURE_CONFIG, e) =>
             EntityRows(FastForwardOp(Store, h).tel, e)
               = EntityRows(WriteTimes(Store, KOf(h)).tel, e)

\* a fast_forward of 2 epochs has just returned, a healthy entity got its two
\* rows while another entity is failing, and a further fast_forward is possible
C7_Witness ==
    /\ SeqQuiet
    /\ pc[EventLoop] = "done"
    /\ ret[EventLoop].op = "fast_forward"
    /\ ret[EventLoop].status = "success"
    /\ ret[EventLoop].value = 2
    /\ FeasibleHours # {}
    /\ \E e, f \in Entities :
         /\ ~EnabledRow(FAILURE_CONFIG, e)
         /\ EnabledRow(FAILURE_CONFIG, f)
         /\ \A k \in {NextEpoch - 1, NextEpoch} : \E r \in Rows(TELEMETRY) :
               /\ r.entity_id = e /\ r.src = "NORMAL" /\ r.off = k
               /\ r.Timestamp = Ts(ClockRow(STREAM_STATE), k)

\* C8: for an entity with an enabled failure of one of the three types and
\* every K >= 1, a fast_forward of K epochs leaves the same rows for the
\* entity, the same failure cursor and the same next_epoch as K calls of
\* write_epoch from the same state.
C8_FailureEquivalence ==
    SeqQuiet =>
       \A h \in FeasibleHours : \A fc \in EnabledConfig(FAILURE_CONFIG) :
          fc.failure_type \in SeedTypes =>
             LET ff == FastForwardOp(Store, h)
                 wr == WriteTimes(Store, KOf(h))
             IN /\ EntityRows(ff.tel, fc.entity_id) = EntityRows(wr.tel, fc.entity_id)
                /\ CursorOf(ff.cfg, fc.entity_id) = CursorOf(wr.cfg, fc.entity_id)
                /\ NextEpochOf(ff) = NextEpochOf(wr)

\* the rows a fresh failure of type ft writes for e in K epochs after epoch n
SeriesRows(e, ft, n, k) ==
    {<<[Timestamp |-> Ts(ClockRow(STREAM_STATE), n + i), entity_id |-> e,
        src |-> ft, off |-> i], 1>> : i \in 1..k}

\* C9: activating a failure type for an entity without a FAILURE_CONFIG row at
\* epoch N and then fast-forwarding K epochs, K within the series, leaves the
\* entity's cursor at K and adds exactly K rows for it, at epochs N+1..N+K,
\* from the series' offsets 1..K in order.
C9_CursorAfterActivation ==
    SeqQuiet =>
       \A h \in FeasibleHours : \A e \in Entities : \A ft \in FailureTypeInputs :
          ( /\ ~(\E fc \in FAILURE_CONFIG : fc.entity_id = e)
            /\ Upper(ft) \in SeedTypes
            /\ KOf(h) <= SeedLen[Upper(ft)] )
          => LET after == FastForwardOp(ActivateOp(Store, e, ft), h)
             IN /\ CursorOf(after.cfg, e) = KOf(h)
                /\ EntityRows(after.tel, e) \ EntityRows(TELEMETRY, e)
                     = SeriesRows(e, Upper(ft), NextEpoch, KOf(h))

\* an ENGINE failure was activated and a fast_forward of 2 epochs has just
\* returned: the cursor is 2 and the series' rows 1 and 2 are there; another
\* entity is still without a row, with room for its own activation
C9_Witness ==
    /\ SeqQuiet
    /\ pc[EventLoop] = "done"
    /\ ret[EventLoop].op = "fast_forward"
    /\ ret[EventLoop].status = "success"
    /\ ret[EventLoop].value = 2
    /\ FeasibleHours # {}
    /\ \E e, f \in Entities :
         /\ ~(\E fc \in FAILURE_CONFIG : fc.entity_id = e)
         /\ \E fc \in FAILURE_CONFIG :
               /\ fc.entity_id = f /\ fc.enabled /\ fc.failure_type = "ENGINE"
               /\ fc.failure_next_epoch = 2
               /\ fc.effective_from_epoch = NextEpoch - 1
         /\ \A i \in 1..2 : \E r \in Rows(TELEMETRY) :
               /\ r.entity_id = f /\ r.src = "ENGINE" /\ r.off = i
               /\ r.Timestamp = Ts(ClockRow(STREAM_STATE), NextEpoch - 2 + i)

\* C10: without reset_all_data, every step, of overlapping write_epoch and
\* fast_forward calls too, leaves next_epoch at least what it was.
C10_NextEpochMonotone == [][NextEpoch' >= NextEpoch]_vars

---------------------------------------------------------------------------
(* Properties of error handling and of the derived data *)

\* C11: when a write statement of write_epoch or fast_forward has failed, the
\* handler changes next_epoch no more and returns an error.
C11_AbortOnFailure ==
    [][\A w \in Workers :
          (loc[w].failed /\ pc'[w] # pc[w])
          => /\ NextEpoch' = NextEpoch
             /\ pc'[w] = "done" => ret'[w].status = "error"]_vars

\* write_epoch interrupted at a statement boundary before STEP 4: after the
\* insert (868), or after the update of the cursors (885)
AbortedAfterInsert(db) ==
    IF ~HasClock(db.ss) THEN db
    ELSE [db EXCEPT !.tel = WriteEpochInsert(db, ClockRow(db.ss).next_epoch + 1)]

AbortedAfterCursor(db) ==
    IF ~HasClock(db.ss) THEN db
    ELSE [AbortedAfterInsert(db) EXCEPT
            !.cfg = WriteEpochCursor(db.cfg, ClockRow(db.ss).next_epoch + 1)]

\* C12: a write_epoch call made after one that was interrupted before its
\* clock update leaves the same rows, the same cursors and the same
\* next_epoch as a single uninterrupted call from the original state.
C12_SafelyRetryable ==
    SeqQuiet =>
       /\ WriteEpochOp(AbortedAfterInsert(Store)) = WriteEpochOp(Store)
       /\ WriteEpochOp(AbortedAfterCursor(Store)) = WriteEpochOp(Store)

\* what C13 expects of a store after a reset
ResetComplete(db) ==
    /\ GetWriterStatus(db.ss).status = "initialized"
    /\ GetWriterStatus(db.ss).epoch = 0
    /\ db.cfg = {}
    /\ db.tel = EmptyBag

\* C13: when reset_all_data has completed, from whatever state it started,
\* get_writer_status reports epoch 0 and FAILURE_CONFIG and TELEMETRY are
\* empty: so it is for the reset that has just returned, and so it would be
\* for a reset started in the present state.
C13_ResetCompleteness ==
    serial =>
       /\ \A w \in Workers :
            (pc[w] = "done" /\ ret[w].op = "reset") => ResetComplete(Store)
       /\ (\A w \in Workers : pc[w] \in {"idle", "done"}) =>
            \A t \in ResetTimes : ResetComplete(ResetOp(Store, t))

\* a reset that was not the first request has just returned, with a clock
\* row stamped after the start of the behaviour
C13_Witness ==
    /\ serial
    /\ calls >= 3
    /\ pc[EventLoop] = "done"
    /\ ret[EventLoop].op = "reset"
    /\ ret[EventLoop].status = "success"
    /\ HasClock(STREAM_STATE)
    /\ ClockRow(STREAM_STATE).start_ts = now
    /\ ClockRow(STREAM_STATE).step_seconds = RESET_STEP_SECONDS

\* no two markers of one (entity, failure type)
UniqueMarkers(markers) ==
    \A a, b \in markers :
       (a.entity_id = b.entity_id /\ a.failure_type = b.failure_type) => a = b

\* the cached prediction of the entity is a failure type
NonNormalPredicted(cache, e) ==
    \E p \in cache : p.entity_id = e /\ p.ptype # "NORMAL"

InProgressLabels == {"set_time", "merge_cache", "insert_markers",
                     "delete_markers", "invalidate", "finally"}

\* C15: every recomputation that has set refresh_in_progress runs to the
\* end of trigger_refresh_sync, whether its statements succeed, fail inside
\* execute_sql or raise; once it is past its finally clause the flag is
\* false; a recomputation that raised returns to its caller in the ordinary
\* way; and the flag is true only while some thread is between setting and
\* clearing it.
C15_InProgressReleased ==
    /\ [](refresh_in_progress => \E t \in Threads : rpc[t] \in InProgressLabels)
    /\ \A t \in Threads :
         /\ (rpc[t] = "set_time") ~> (rpc[t] = "done" /\ rret[t].sync = "executed")
         /\ [](rpc[t] = "release" => ~refresh_in_progress)
         /\ [](rpc[t] = "done" /\ rloc[t].raised
                 => /\ rret[t].sync = "executed"
                    /\ rret[t].status = StatusAfterSync(rloc[t].kind))

\* a recomputation that raised has run its finally clause: the flag is false
C15_Witness ==
    /\ ~refresh_in_progress
    /\ \E t \in Threads : /\ rpc[t] = "release"
                          /\ rloc[t].raised
                          /\ rloc[t].executed

\* C16: after a request that changed the failure registry has completed,
\* the next get_active_failures does not serve what it cached before that
\* request: with one request handled at a time, every answer of
\* get_active_failures is the result of its query on the registry as it is.
C16_ReadSeesMutation ==
    serial =>
       \A w \in Workers :
          (pc[w] = "done" /\ ret[w].op = "active_failures")
          => ret[w].value = ActiveFailuresResult(FAILURE_CONFIG)

\* the FAILURE_CONFIG rows of one entity
ConfigRows(cfg, e) == {fc \in cfg : fc.entity_id = e}

\* C17: activate_failure(entity, type) with the clock at next_epoch = N and
\* one request handled at a time. Without a row of the entity the registry
\* gets one enabled row with the type (in upper case), cursor 0 and
\* effective_from_epoch N+1; with a row, the row becomes enabled, takes the
\* type and effective_from_epoch N+1 and keeps its cursor, whatever its type
\* was. The rows of the other entities stay as they are. The activation that
\* has just returned has left such a row.
C17_ActivateResult ==
    SeqQuiet =>
       /\ \A eid \in Entities, ft \in FailureTypeInputs :
            LET after == ActivateOp(Store, eid, ft).cfg
                mine  == ConfigRows(after, eid)
            IN /\ Cardinality(mine) = 1
               /\ after \ mine = FAILURE_CONFIG \ ConfigRows(FAILURE_CONFIG, eid)
               /\ \A fc \in mine :
                    /\ fc.enabled
                    /\ fc.failure_type = Upper(ft)
                    /\ fc.effective_from_epoch = NextEpoch + 1
                    /\ fc.failure_next_epoch =
                          IF ConfigRows(FAILURE_CONFIG, eid) = {} THEN 0
                          ELSE CursorOf(FAILURE_CONFIG, eid)
       /\ \A w \in Workers :
            (pc[w] = "done" /\ ret[w].op = "activate")
            => \E fc \in FAILURE_CONFIG :
                  /\ fc.enabled
                  /\ fc.failure_type = ret[w].value
                  /\ fc.effective_from_epoch = NextEpoch + 1

\* an activation has just returned for an entity whose row had advanced
\* further than the series of its new type is long
C17_Witness ==
    /\ SeqQuiet
    /\ pc[EventLoop] = "done"
    /\ ret[EventLoop].op = "activate"
    /\ ret[EventLoop].value = "TRANSMISSION"
    /\ \E fc \in FAILURE_CONFIG :
          /\ fc.failure_type = "TRANSMISSION"
          /\ fc.enabled
          /\ fc.failure_next_epoch >= 2
          /\ fc.effective_from_epoch = NextEpoch + 1

\* the epoch a row is stamped with, by the clock row
RowEpoch(r) ==
    (r.Timestamp - ClockRow(STREAM_STATE).start_ts) \div ClockRow(STREAM_STATE).step_seconds

\* the rows a step adds
NewRows == Rows(TELEMETRY') \ Rows(TELEMETRY)

\* C18: activation does not touch what is written. No statement of
\* activate_failure changes TELEMETRY; no statement of any request changes
\* or removes a row that is there; with one request handled at a time the
\* writers add rows only at epochs after next_epoch (so after the epoch N of
\* every earlier activation), and the failure-series rows they add for an
\* entity are at epochs >= the effective_from_epoch of its enabled row.
C18_HistoryKept ==
    [][/\ \A w \in Workers :
            (pc'[w] # pc[w] /\ (pc[w] = "af_merge" \/ pc'[w] = "af_merge"))
            => TELEMETRY' = TELEMETRY
       /\ \A r \in Rows(TELEMETRY) : CopiesIn(r, TELEMETRY') = CopiesIn(r, TELEMETRY)
       /\ serial =>
            \A r \in NewRows :
               /\ RowEpoch(r) > NextEpoch
               /\ r.src # "NORMAL" =>
                    \E fc \in FAILURE_CONFIG :
                       /\ fc.entity_id = r.entity_id
                       /\ fc.enabled
                       /\ RowEpoch(r) >= fc.effective_from_epoch]_vars

\* an entity activated at epoch 1 has its normal row of epoch 1 and, from
\* effective_from_epoch 2 on, a row of its failure series
C18_Witness ==
    /\ SeqQuiet
    /\ NextEpoch >= 2
    /\ \E fc \in FAILURE_CONFIG :
          /\ fc.enabled
          /\ fc.effective_from_epoch = 2
          /\ \E r \in Rows(TELEMETRY) :
                r.entity_id = fc.entity_id /\ r.src = "NORMAL" /\ RowEpoch(r) = 1
          /\ \E r \in Rows(TELEMETRY) :
                r.entity_id = fc.entity_id /\ r.src # "NORMAL" /\ RowEpoch(r) = 2

\* the labels of fast_forward past its check of epochs_to_write
FFLabels == {"ff_cfg", "ff_normal", "ff_loop", "ff_cursor", "ff_clock"}

\* the request spans less than one step of the clock: K <= 0
SpansNoEpoch(hours) ==
    hours * SECONDS_PER_HOUR < StepOr5(ClockRow(STREAM_STATE).step_seconds)

\* C19: a fast_forward whose request yields K <= 0 epochs is answered with
\* an error and changes nothing: the step that answers it leaves the clock,
\* FAILURE_CONFIG, TELEMETRY, the refresh state and the refresh threads as
\* they are; no such request gets past the check (912-919); and the whole
\* handler run on such a request in a quiet state returns the store it found.
C19_NonPositiveRejected ==
    /\ [][\A w \in Workers :
             (/\ pc'[w] = "done" /\ pc[w] # "done"
              /\ ret'[w].op = "fast_forward" /\ ret'[w].status = "error")
             => UNCHANGED <<storeVars, derived, refreshVars, threadVars, exec_log>>]_vars
    /\ [](\A w \in Workers :
            (pc[w] \in FFLabels /\ HasClock(STREAM_STATE)) => ~SpansNoEpoch(loc[w].hours))
    /\ [](SeqQuiet =>
            \A h \in Hours : SpansNoEpoch(h) => FastForwardOp(Store, h) = Store)

\* a fast_forward of no epochs has just been refused on a store with rows
C19_Witness ==
    /\ \E w \in Workers :
          /\ pc[w] = "done"
          /\ ret[w].op = "fast_forward"
          /\ ret[w].status = "error"
          /\ ret[w].value = "No epochs to write"
    /\ TELEMETRY # EmptyBag
    /\ FAILURE_CONFIG # {}
    /\ NextEpoch >= 1

\* C20: an activation with a failure type other than ENGINE, TRANSMISSION
\* and ELECTRICAL is refused and leaves the registry as it is: no row of
\* FAILURE_CONFIG carries another type, and no activation of another type
\* is answered with success.
C20_KnownTypesOnly ==
    /\ \A fc \in FAILURE_CONFIG : fc.failure_type \in SeedTypes
    /\ \A w \in Workers :
          (pc[w] = "done" /\ ret[w].op = "activate" /\ ret[w].status = "success")
          => ret[w].value \in SeedTypes

---------------------------------------------------------------------------
(* Properties of the writers, the registry and the staleness trigger *)

\* the request a worker has taken up in the step
OpTaken(w) == IF pc'[w] = "done" THEN ret'[w].op ELSE loc'[w].op

\* C21: a write_epoch or fast_forward that finds no clock row answers
\* "Stream state not found" from its first statement and changes nothing;
\* run as a whole on a store without a clock row either handler returns the
\* store it found; and no statement of either handler makes a clock row
\* where there is none (only reset_all_data inserts one).
C21_NoClockNoWrite ==
    /\ [][\A w \in Workers :
             (/\ ~HasClock(STREAM_STATE)
              /\ pc[w] = "idle" /\ pc'[w] # "idle"
              /\ OpTaken(w) \in {"write_epoch", "fast_forward"})
             => /\ pc'[w] = "done"
                /\ ret'[w].status = "error"
                /\ ret'[w].value = "Stream state not found"
                /\ UNCHANGED storeVars]_vars
    /\ [][(~HasClock(STREAM_STATE) /\ HasClock(STREAM_STATE'))
             => \E w \in Workers : pc[w] = "rs_insert" /\ pc'[w] = "done"]_vars
    /\ [](~HasClock(STREAM_STATE) =>
            /\ WriteEpochOp(Store) = Store
            /\ \A h \in Hours : FastForwardOp(Store, h) = Store)

\* while reset_all_data is between its DELETE and its INSERT of the clock
\* row, a write_epoch has been refused
C21_Witness ==
    /\ ~HasClock(STREAM_STATE)
    /\ \E w \in Workers :
          /\ pc[w] = "done"
          /\ ret[w].op = "write_epoch"
          /\ ret[w].status = "error"
    /\ \E w \in Workers : pc[w] = "rs_insert"

\* C22: with one request handled at a time, the write_epoch that returns
\* success from next_epoch = N leaves next_epoch = N+1 and returns N+1, and
\* the fast_forward of K epochs that returns success leaves next_epoch = N+K
\* and reports K; so do the handlers run as a whole on the present store.
C22_ClockAdvance ==
    /\ [][serial =>
            \A w \in Workers :
               (pc[w] # "done" /\ pc'[w] = "done" /\ ret'[w].status = "success")
               => /\ ret'[w].op = "write_epoch"
                     => /\ NextEpoch' = NextEpoch + 1
                        /\ ret'[w].value = NextEpoch + 1
                  /\ ret'[w].op = "fast_forward"
                     => /\ loc[w].epochs_to_write =
                              EpochsToWrite(loc[w].hours, ClockRow(STREAM_STATE).step_seconds)
                        /\ NextEpoch' = NextEpoch + loc[w].epochs_to_write
                        /\ ret'[w].value = loc[w].epochs_to_write]_vars
    /\ [](SeqQuiet =>
            /\ NextEpoch < MaxEpoch => NextEpochOf(WriteEpochOp(Store)) = NextEpoch + 1
            /\ \A h \in FeasibleHours :
                  NextEpochOf(FastForwardOp(Store, h)) = NextEpoch + KOf(h))

\* a fast_forward of two epochs from next_epoch = 1 has just returned
C22_Witness ==
    /\ serial
    /\ pc[EventLoop] = "done"
    /\ ret[EventLoop].op = "fast_forward"
    /\ ret[EventLoop].status = "success"
    /\ ret[EventLoop].value = 2
    /\ NextEpoch = 3

---------------------------------------------------------------------------
(* Properties of the reads of the predictions (SpecStale) *)

\* the rows of predictions a read returns in this step, {} when the step is
\* not the return of such a read
ReadPredictions(w) ==
    IF pc[w] = "idle" /\ pc'[w] = "done" /\ ret'[w].op = "predictions"
    THEN ret'[w].value
    ELSE IF pc[w] = "idle" /\ pc'[w] = "done" /\ ret'[w].op = "dashboard"
    THEN ret'[w].value.predictions
    ELSE {}

\* a background trigger of the staleness kind is started in this step
AutoTriggerIssued ==
    \E t \in Threads :
       rpc[t] = "idle" /\ rpc'[t] = "sync_time" /\ rloc'[t].kind = "auto"

\* C23: every read of the predictions that observes a maximum staleness of
\* 60 simulated minutes or more starts a background trigger, and returns in
\* the same step, before the refresh has run.
C23_StaleReadTriggers ==
    [][\A w \in Workers :
          (\E r \in ReadPredictions(w) : r.age_minutes >= STALE_MINUTES)
             => /\ AutoTriggerIssued
                /\ UNCHANGED <<derived, refreshVars, exec_log>>]_vars

---------------------------------------------------------------------------
(* Properties of the failure registry beside the writers and the refresh   *)
(* (SpecRegistry)                                                           *)

\* what the registry says of an entity: whether it has a row, and the row's
\* enabled flag and failure type
RegistryEntry(cfg, e) ==
    {[enabled |-> fc.enabled, failure_type |-> fc.failure_type] : fc \in ConfigRows(cfg, e)}

\* the MERGE of activate_failure for the entity is the step taken
ActivateStep(e) ==
    \E w \in Workers : pc[w] = "af_merge" /\ pc'[w] = "done" /\ loc[w].eid = e

\* the DELETE of clear_failures or of reset_all_data is the step taken
ClearStep ==
    \E w \in Workers :
       \/ pc[w] = "idle" /\ pc'[w] = "done" /\ ret'[w].op = "clear"
       \/ pc[w] = "rs_config" /\ pc'[w] = "rs_delete"

\* C24 as stated: the failure state of an entity changes only from Inactive
\* to Active(type), by activate_failure, and from Active to Inactive, by
\* clear_failures or reset_all_data.
C24_TwoTransitionsOnly ==
    [][\A e \in Entities :
          RegistryEntry(FAILURE_CONFIG', e) # RegistryEntry(FAILURE_CONFIG, e)
             => \/ /\ ~EnabledRow(FAILURE_CONFIG, e)
                   /\ EnabledRow(FAILURE_CONFIG', e)
                   /\ ActivateStep(e)
                \/ /\ EnabledRow(FAILURE_CONFIG, e)
                   /\ ~EnabledRow(FAILURE_CONFIG', e)
                   /\ ClearStep]_vars

\* C24 amended: the row of an entity appears, or changes its enabled flag or
\* its failure type, only in the MERGE of activate_failure for that entity,
\* which leaves it Active with the requested type (from Inactive, or from
\* Active with the same or another type), and disappears only in the DELETE
\* of clear_failures or reset_all_data, which empties the registry. No step
\* of write_epoch, of fast_forward or of a refresh thread disables, deletes
\* or retypes a row, whether or not the entity's series is exhausted.
C24_RegistryTransitions ==
    [][\A e \in Entities :
          RegistryEntry(FAILURE_CONFIG', e) # RegistryEntry(FAILURE_CONFIG, e)
             => \/ /\ ActivateStep(e)
                   /\ \E w \in Workers :
                         /\ pc[w] = "af_merge"
                         /\ RegistryEntry(FAILURE_CONFIG', e) =
                               {[enabled |-> TRUE, failure_type |-> loc[w].ft]}
                \/ /\ ClearStep
                   /\ FAILURE_CONFIG' = {}]_vars

\* an enabled row whose series is exhausted is still in the registry after
\* the writers went past it and a refresh thread has run
C24_Witness ==
    /\ \E fc \in FAILURE_CONFIG :
          /\ fc.enabled
          /\ fc.failure_type = "TRANSMISSION"
          /\ fc.failure_next_epoch >= SeedLen[fc.failure_type]
          /\ fc.effective_from_epoch + SeedLen[fc.failure_type] <= NextEpoch
    /\ \E t \in Threads : rpc[t] = "done" /\ rret[t].sync = "executed"

---------------------------------------------------------------------------
(* Properties of the recomputation's statements (SpecRefresh) *)

\* the step in which a recomputation that raised no exception leaves
\* trigger_refresh_sync
CompletesCleanly(t) ==
    rpc[t] = "release" /\ rpc'[t] = "done" /\ ~rloc[t].raised

\* C25: when a recomputation in which no statement raised has run to its
\* end, no marker is left of an entity whose cached prediction is not a
\* failure type: the markers of the entities whose failure cleared are gone.
C25_ClearedMarkersDeleted ==
    [][\A t \in Threads :
          CompletesCleanly(t)
             => \A m \in FIRST_FAILURE_MARKERS' :
                   NonNormalPredicted(PREDICTION_CACHE', m.entity_id)]_vars

\* the positions of a trigger before `with refresh_lock:`: the arrival, the
\* reads of the clock and the two checks of refresh_predictions and of
\* trigger_refresh_sync
CheckLabels == {"idle", "rp_cooldown", "rp_in_progress",
                "sync_time", "sync_cooldown", "sync_in_progress"}

\* the trigger is over and was turned away by a cooldown or an in-progress check
TurnedAway(t) ==
    /\ rpc[t] = "done"
    /\ \/ rret[t].status \in {"throttled", "in_progress"}
       \/ rret[t].sync \in {"cooldown", "in_progress"}

\* C26: a trigger that is turned away as throttled or as already in progress
\* has no side effects. Every step a trigger takes up to and including its
\* checks leaves refresh_in_progress, last_refresh_time, the prediction
\* cache, the markers and the read caches with their timestamps as they
\* were, and a trigger that was turned away has taken no other step: it
\* never started a recomputation.
C26_TurnedAwayNoEffect ==
    /\ [][\A t \in Threads :
             (rpc'[t] # rpc[t] /\ rpc[t] \in CheckLabels)
                => UNCHANGED <<refresh_in_progress, last_refresh_time, refresh_lock,
                               PREDICTION_CACHE, FIRST_FAILURE_MARKERS, caches,
                               exec_log>>]_vars
    /\ [](\A t \in Threads : TurnedAway(t) => ~rloc[t].executed)

\* a manual trigger was throttled and a background trigger found a
\* recomputation in progress, after a recomputation has filled the cache
C26_Witness ==
    /\ PREDICTION_CACHE # {}
    /\ \E t, u \in Threads :
          /\ rpc[t] = "done" /\ rret[t].status = "throttled"
          /\ rpc[u] = "done" /\ rret[u].sync = "in_progress"

---------------------------------------------------------------------------
(* Properties of the cursor and of the rows the writers emit (SpecNoReset) *)

\* the failure-series rows of the entity that a call has added
FailureRowsAdded(before, after, e) ==
    {r \in Rows(after.tel) \ Rows(before.tel) : r.entity_id = e /\ r.src # "NORMAL"}

\* the cursor of the entity has advanced by the number of failure-series rows
\* the call has added for it
CursorCountsRows(before, after, e) ==
    CursorOf(after.cfg, e) - CursorOf(before.cfg, e) =
       Cardinality(FailureRowsAdded(before, after, e))

\* C27: with one request handled at a time, every call of write_epoch and
\* every call of fast_forward advances the cursor of an enabled row by the
\* number of failure-series rows it emits for the entity: by one for an epoch
\* with a failure row, by nothing for an epoch before effective_from_epoch
\* or after the end of the series. The cursor, 0 at creation, therefore
\* equals the number of failure-series rows emitted since.
C27_CursorCountsEmitted ==
    SeqQuiet =>
       \A e \in Entities :
          EnabledRow(FAILURE_CONFIG, e) =>
             /\ NextEpoch < MaxEpoch => CursorCountsRows(Store, WriteEpochOp(Store), e)
             /\ \A h \in FeasibleHours : CursorCountsRows(Store, FastForwardOp(Store, h), e)

\* the entity has an enabled row that is effective at the epoch
EffectiveAt(cfg, e, target_epoch) ==
    \E fc \in cfg : /\ fc.entity_id = e /\ fc.enabled
                     /\ fc.effective_from_epoch <= target_epoch

\* the rows a step adds for the entity
RowsAddedFor(e) == {r \in NewRows : r.entity_id = e}

\* the row of the failure series the registry row points at, and the row of
\* the normal series, at the epoch
FailureRowAt(fc, target_epoch) ==
    [Timestamp |-> Ts(ClockRow(STREAM_STATE), target_epoch), entity_id |-> fc.entity_id,
     src |-> fc.failure_type, off |-> fc.failure_next_epoch + 1]
NormalRowAt(e, target_epoch) ==
    [Timestamp |-> Ts(ClockRow(STREAM_STATE), target_epoch), entity_id |-> e,
     src |-> "NORMAL", off |-> target_epoch]

\* C28: with one request handled at a time, the INSERT of write_epoch for
\* the target epoch adds at most one row per entity, one copy of it, at the
\* timestamp of the target: for an entity with an enabled row effective at
\* the target nothing but the row of its failure series at offset cursor + 1,
\* for every other entity the row of the normal series at offset target. The
\* UPDATE that follows increments by one the cursor of every entity that
\* got its failure row and leaves every other row of the registry as it was.
C28_OneRowPerEntity ==
    [][serial =>
         \A w \in Workers : \A e \in Entities :
            /\ (pc[w] = "we_insert" /\ pc'[w] = "we_cursor") =>
                  /\ Cardinality(RowsAddedFor(e)) <= 1
                  /\ \A r \in RowsAddedFor(e) : CopiesIn(r, TELEMETRY') = 1
                  /\ IF EffectiveAt(FAILURE_CONFIG, e, loc[w].target_epoch)
                     THEN \A fc \in ConfigRows(FAILURE_CONFIG, e) :
                             RowsAddedFor(e) \subseteq {FailureRowAt(fc, loc[w].target_epoch)}
                     ELSE RowsAddedFor(e) = {NormalRowAt(e, loc[w].target_epoch)}
            /\ (pc[w] = "we_cursor" /\ pc'[w] = "we_clock") =>
                  \A fc \in ConfigRows(FAILURE_CONFIG, e) :
                     IF /\ EffectiveAt(FAILURE_CONFIG, e, loc[w].target_epoch)
                        /\ FailureRowAt(fc, loc[w].target_epoch) \in Rows(TELEMETRY)
                     THEN ConfigRows(FAILURE_CONFIG', e) =
                             {[fc EXCEPT !.failure_next_epoch = fc.failure_next_epoch + 1]}
                     ELSE ConfigRows(FAILURE_CONFIG', e) = {fc}]_vars

\* write_epoch for the second epoch has inserted the second row of T1's
\* failure series and the normal row of T2, and has moved T1's cursor to 2
C28_Witness ==
    /\ serial
    /\ pc[EventLoop] = "we_clock"
    /\ loc[EventLoop].target_epoch = 2
    /\ \E fc \in FAILURE_CONFIG :
          /\ fc.entity_id = "T1" /\ fc.enabled /\ fc.failure_next_epoch = 2
          /\ [FailureRowAt(fc, 2) EXCEPT !.off = 2] \in Rows(TELEMETRY)
    /\ NormalRowAt("T2", 2) \in Rows(TELEMETRY)

\* the rows of the entity at the epoch
RowsAt(tel, e, p) ==
    {r \in Rows(tel) : r.entity_id = e /\ r.Timestamp = Ts(ClockRow(STREAM_STATE), p)}

\* the offset in its series that the entity of the registry row reaches at
\* epoch p, when the writers start from the present clock
OffsetAt(fc, p) ==
    fc.failure_next_epoch + (p - Max(fc.effective_from_epoch, NextEpoch + 1)) + 1

\* a writer has gone from the present store to `after`, over k epochs: the
\* clock is k further; an entity with an enabled row of one of the three
\* series has, at every epoch from effective_from_epoch on, the row of its
\* series while the series lasts and no row at all once it is exhausted; an
\* entity without a row in the registry has its normal row at every epoch
OfflineWhenExhausted(after, k) ==
    /\ NextEpochOf(after) = NextEpoch + k
    /\ \A e \in Entities : \A p \in (NextEpoch + 1)..(NextEpoch + k) :
          /\ ConfigRows(FAILURE_CONFIG, e) = {} =>
                RowsAt(after.tel, e, p) = {NormalRowAt(e, p)}
          /\ \A fc \in ConfigRows(FAILURE_CONFIG, e) :
                (fc.enabled /\ fc.failure_type \in SeedTypes
                   /\ p >= fc.effective_from_epoch)
                => RowsAt(after.tel, e, p) =
                      IF OffsetAt(fc, p) > SeedLen[fc.failure_type] THEN {}
                      ELSE {[Timestamp |-> Ts(ClockRow(STREAM_STATE), p), entity_id |-> e,
                             src |-> fc.failure_type, off |-> OffsetAt(fc, p)]}

\* C29: with one request handled at a time, an entity whose failure series
\* (ENGINE, TRANSMISSION or ELECTRICAL) is exhausted is offline in both
\* writers: write_epoch and fast_forward add neither a failure row nor a
\* normal row for it at the exhausted epochs, every other entity gets its
\* row at every epoch written, and the clock advances by the epochs written.
C29_ExhaustedOffline ==
    SeqQuiet =>
       /\ NextEpoch < MaxEpoch => OfflineWhenExhausted(WriteEpochOp(Store), 1)
       /\ \A h \in FeasibleHours : OfflineWhenExhausted(FastForwardOp(Store, h), KOf(h))

\* T1, on the TRANSMISSION series of length 1 from epoch 1, has its one
\* failure row at epoch 1 and no row at epoch 2, where T2 has its normal row
C29_Witness ==
    /\ SeqQuiet
    /\ NextEpoch = 2
    /\ \E fc \in ConfigRows(FAILURE_CONFIG, "T1") :
          /\ fc.enabled /\ fc.failure_type = "TRANSMISSION"
          /\ fc.effective_from_epoch = 1
    /\ \E r \in RowsAt(TELEMETRY, "T1", 1) : r.src = "TRANSMISSION"
    /\ RowsAt(TELEMETRY, "T1", 2) = {}
    /\ RowsAt(TELEMETRY, "T2", 2) = {NormalRowAt("T2", 2)}

---------------------------------------------------------------------------
(* Self-healing of stale predictions (SpecStaleFair) *)

\* the latest wall-clock time of the model
LastTime == SetMax(Times)

\* the cached predictions are stale, and the cooldown after the last
\* recomputation ends within the model's wall-clock times and executions
StaleAndDue ==
    /\ IsStale(LatestPredictions(PREDICTION_CACHE, TELEMETRY))
    /\ last_refresh_time + COOLDOWN <= LastTime
    /\ Len(exec_log) < MaxFairExecs

\* C30: while the cached predictions are 60 simulated minutes or more stale
\* and the predictions keep being read, a recomputation eventually executes.
C30_StaleHeals == StaleAndDue ~> (Executing # {})

---------------------------------------------------------------------------
(* Overlapping calls of write_epoch (SpecNoReset) *)

\* the k-th statement of write_epoch after its read: STEP 2, STEP 3, STEP 4
WEStatement(db, k, target_epoch) ==
    CASE k = 1 -> [db EXCEPT !.tel = WriteEpochInsert(db, target_epoch)]
      [] k = 2 -> [db EXCEPT !.cfg = WriteEpochCursor(db.cfg, target_epoch)]
      [] k = 3 -> [db EXCEPT !.ss = WriteEpochClock(db.ss, target_epoch)]

\* the stores two calls of write_epoch can leave that have both computed
\* target_epoch from the same read, one having executed i and the other j of
\* its statements, over every order of the statements still to come
RECURSIVE Interleaved(_, _, _, _)
Interleaved(db, target_epoch, i, j) ==
    IF i = 3 /\ j = 3 THEN {db}
    ELSE (IF i < 3
          THEN Interleaved(WEStatement(db, i + 1, target_epoch), target_epoch, i + 1, j)
          ELSE {})
         \cup
         (IF j < 3
          THEN Interleaved(WEStatement(db, j + 1, target_epoch), target_epoch, i, j + 1)
          ELSE {})

\* C31: two overlapping calls of write_epoch that have both read
\* next_epoch = N leave, in whatever order their statements run, the store a
\* single call leaves: the rows of epoch N+1 once, next_epoch = N+1 and every
\* cursor of an effective entity advanced by one.
C31_ConcurrentAsOne ==
    (SeqQuiet /\ NextEpoch < MaxEpoch) =>
       Interleaved(Store, NextEpoch + 1, 0, 0) = {WriteEpochOp(Store)}

---------------------------------------------------------------------------
(* Pending failures (SpecStore) *)

\* C32: in every reachable state, whatever the interleaving of the
\* statements of activate_failure, write_epoch, fast_forward, clear_failures
\* and reset_all_data, every enabled FAILURE_CONFIG row has
\* effective_from_epoch <= next_epoch + 1: no failure is pending beyond the
\* very next epoch.
C32_PendingAtMostNext ==
    HasClock(STREAM_STATE) =>
       \A fc \in FAILURE_CONFIG :
          fc.enabled => fc.effective_from_epoch <= NextEpoch + 1

---------------------------------------------------------------------------
(* The cached read of the registry beside activations (SpecActivateRead) *)

---------------------------------------------------------------------------
(* failures_cache between its two read paths (SpecSharedCache) *)

\* the read path is answered in this step with what it found in failures_cache
ServedFromFailuresCache(w, op) ==
    /\ pc[w] = "idle" /\ pc'[w] = "done" /\ ret'[w].op = op
    /\ CacheFresh(caches["failures"], now')

\* C34: what a read path is served from failures_cache was stored there by
\* the same read path: get_active_failures is never answered with data the
\* dashboard read stored, nor the dashboard read with data
\* get_active_failures stored.
C34_OwnValueServed ==
    [][\A w \in Workers :
          /\ ServedFromFailuresCache(w, "active_failures")
                => caches["failures"].by = "active_failures"
          /\ ServedFromFailuresCache(w, "dashboard")
                => caches["failures"].by = "dashboard"]_vars

---------------------------------------------------------------------------
(* The answer of the manual trigger (SpecRefresh) *)

\* C35: refresh_predictions answers success only when the call itself ran
\* the recomputation: a manual trigger that trigger_refresh_sync turned away,
\* by its cooldown check or because a refresh was in progress, is not
\* answered with success, whatever the other triggers do meanwhile.
C35_SuccessMeansExecuted ==
    \A t \in Threads :
       (rpc[t] = "done" /\ rloc[t].kind = "manual" /\ rret[t].status = "success")
          => rloc[t].executed /\ rret[t].sync = "executed"

---------------------------------------------------------------------------
(* The status get_active_failures reports (SpecCache) *)

\* the series of the registry row has no row after the cursor: the INSERT
\* and the UPDATE of write_epoch (841-857, 875-884) and the bulk insert of
\* fast_forward (976-992) find nothing more for the entity
SeriesExhausted(fc) == fc.failure_next_epoch + 1 \notin FailureSeed(fc.failure_type)

\* C36: the query of get_active_failures reports an enabled entity as
\* OFFLINE exactly when its failure series is exhausted and as ACTIVE
\* otherwise, whether write_epoch or fast_forward moved the cursor there
\* (with one request handled at a time).
C36_OfflineIffExhausted ==
    [][\A w \in Workers :
          (serial /\ pc[w] = "gaf_query" /\ pc'[w] = "gaf_store")
             => \A r \in loc'[w].result :
                   \A fc \in ConfigRows(FAILURE_CONFIG, r.entity_id) :
                      (r.status = "OFFLINE") <=> SeriesExhausted(fc)]_vars

---------------------------------------------------------------------------
(* The cached reads after reset_all_data (SpecResetReads) *)

\* reset_all_data has returned and no request has changed the store since:
\* the clock row is the one the reset inserts, at epoch 0, and the tables
\* are empty (no request of SpecResetReads takes a row away again)
FreshlyReset ==
    /\ HasClock(STREAM_STATE)
    /\ ClockRow(STREAM_STATE).step_seconds = RESET_STEP_SECONDS
    /\ NextEpoch = 0
    /\ TELEMETRY = EmptyBag
    /\ FAILURE_CONFIG = {}
    /\ PREDICTION_CACHE = {}
    /\ FIRST_FAILURE_MARKERS = {}

\* C37: after reset_all_data has returned, no cached read returns data that
\* was computed from the store before the reset: while the store is as the
\* reset left it, the dashboard read returns no telemetry, no predictions, no
\* failures and no markers, and get_active_failures returns no failure.
C37_NoPreResetData ==
    [][\A w \in Workers :
          (FreshlyReset /\ pc[w] # "done" /\ pc'[w] = "done")
             => /\ ret'[w].op = "dashboard"
                   => /\ ret'[w].value.telemetry = {}
                      /\ ret'[w].value.predictions = {}
                      /\ ret'[w].value.failures = {}
                      /\ ret'[w].value.markers = {}
                /\ ret'[w].op = "active_failures" => ret'[w].value = {}]_vars

---------------------------------------------------------------------------
(* The rows and the clock (SpecNoReset) *)

\* no request is between two of its statements
NoneInFlight == \A w \in Workers : pc[w] \in {"idle", "done"}

\* C38: when no statement fails, whenever the writers that were called have
\* all completed, in whatever order the statements of overlapping
\* write_epoch and fast_forward calls ran, every TELEMETRY row carries the
\* timestamp of an epoch e with 1 <= e <= next_epoch: no row is ahead of the
\* clock.
C38_NoRowAheadOfClock ==
    (NoneInFlight /\ HasClock(STREAM_STATE)) =>
       \A r \in Rows(TELEMETRY) :
          /\ RowEpoch(r) \in 1..NextEpoch
          /\ r.Timestamp = Ts(ClockRow(STREAM_STATE), RowEpoch(r))

====
